---- MODULE Spec2Model ----
(***************************************************************************)
(* Fleet synchronisation engine of PyZKTecoClocksCommon.                   *)
(*                                                                         *)
(* One record per device holds the state of the green thread working on    *)
(* that device: the ConnectionManager session (connection_manager.py) and  *)
(* the locals of the device task (attendances_manager.py, hour_manager.py).*)
(* The remaining variables are the locals of the fleet operation running   *)
(* in the main green thread and the SharedState progress tracker.          *)
(*                                                                         *)
(* Green threads are cooperative: a thread runs until it blocks in a       *)
(* transport call, a sleep or a wait.  Every action below is one such run  *)
(* of one thread, and any runnable thread may take the next step.          *)
(***************************************************************************)
EXTENDS Integers, Sequences, FiniteSets, TLC

\* Device IPs of the registry.
Devices == {"A", "B", "C"}

\* The device whose ConnectionManager the session specification SpecConn drives.
ConnDev == "A"

\* ---- bounds of the model ----
\* Longest punch list a device returns, and largest record count it reports.
MaxPunch == 1
\* Largest retry_connection value explored by SpecConn.
ConnMaxAttempts == 7
\* Largest retry_connection value explored by SpecReads.
ReadsMaxAttempts == 3
\* retry_connection value of a fleet run.
FleetAttempts == 2
\* Largest total and processed count explored by SpecTracker.
MaxTotal == 50
\* Longest punch list handed to format_attendances by SpecFormat
MaxFormat == 2

\* ---- program constants ----
\* random.uniform(0, 3): upper end of the backoff jitter.
MaxJitter == 3
\* Cap of the backoff wait, in seconds.
MaxWait == 30

VARIABLES
    task,          \* [Devices -> record]: the session and task state per device
    max_attempts,  \* ConnectionManager.max_attempts (config retry_connection)
    batch,         \* the fleet operation called and its arguments
    registry,      \* info_devices.txt: one record per line
    main,          \* locals of the fleet operation (main green thread)
    state          \* SharedState: total_devices, processed_devices

vars == <<task, max_attempts, batch, registry, main, state>>

\* What a step of one ConnectionManager leaves alone.
fleet_vars == <<max_attempts, batch, registry, main, state>>

Min(a, b) == IF a <= b THEN a ELSE b

\* str(n): the decimal digits of n.
DecimalDigits == <<"0", "1", "2", "3", "4", "5", "6", "7", "8", "9">>
RECURSIVE Str(_)
Str(n) == IF n < 10 THEN <<DecimalDigits[n + 1]>>
          ELSE Str(n \div 10) \o <<DecimalDigits[(n % 10) + 1]>>

\* s.zfill(width)
RECURSIVE zfill(_, _)
zfill(s, width) == IF Len(s) >= width THEN s ELSE zfill(<<"0">> \o s, width)

\* int(s) of a string of decimal digits
DigitValue(c) == CHOOSE n \in 0..9 : DecimalDigits[n + 1] = c
RECURSIVE ParseInt(_)
ParseInt(s) == IF s = <<>> THEN 0
          ELSE ParseInt(SubSeq(s, 1, Len(s) - 1)) * 10 + DigitValue(s[Len(s)])

\* ---------------------------------------------------------------------
\* datetime values
\* ---------------------------------------------------------------------

\* A datetime, to the second.
DateTime(year, month, day, hour, minute, second) ==
    [year |-> year, month |-> month, day |-> day,
     hour |-> hour, minute |-> minute, second |-> second]
\* The datetime field of a value that is not a datetime.
NoDateTime == DateTime(0, 0, 0, 0, 0, 0)

\* A timestamp is a datetime or a str: "at" is the datetime, "text" the
\* characters of the string.
AsDateTime(t) == [type |-> "datetime", at |-> t, text |-> <<>>]
AsStr(chars) == [type |-> "str", at |-> NoDateTime, text |-> chars]

\* a < b and a <= b on datetimes: the fields in order, the first that
\* differs decides.
TimeKey(t) == <<t.year, t.month, t.day, t.hour, t.minute, t.second>>
RECURSIVE LexLess(_, _, _)
LexLess(a, b, k) == IF k > Len(a) THEN FALSE
                    ELSE IF a[k] # b[k] THEN a[k] < b[k]
                    ELSE LexLess(a, b, k + 1)
DateTimeLess(a, b) == LexLess(TimeKey(a), TimeKey(b), 1)
DateTimeLeq(a, b) == a = b \/ DateTimeLess(a, b)

\* now - relativedelta(months=3): three calendar months back, the day
\* brought down to the last day of that month.
IsLeap(year) == (year % 4 = 0 /\ year % 100 # 0) \/ year % 400 = 0
DaysInMonth(year, month) ==
    CASE month = 2              -> IF IsLeap(year) THEN 29 ELSE 28
      [] month \in {4, 6, 9, 11} -> 30
      [] OTHER                  -> 31
MinusThreeMonths(now) ==
    LET m == now.month - 3
        year == IF m < 1 THEN now.year - 1 ELSE now.year
        month == IF m < 1 THEN m + 12 ELSE m
    IN  [now EXCEPT !.year = year, !.month = month,
                    !.day = Min(now.day, DaysInMonth(year, month))]

\* timestamp.strftime("%d/%m/%Y %H:%M"): the seconds are dropped.
strftime(t) ==
    zfill(Str(t.day), 2) \o <<"/">> \o zfill(Str(t.month), 2) \o <<"/">>
        \o zfill(Str(t.year), 4) \o <<" ">>
        \o zfill(Str(t.hour), 2) \o <<":">> \o zfill(Str(t.minute), 2)

\* datetime.strptime(timestamp, "%d/%m/%Y %H:%M")
strptime(chars) ==
    DateTime(ParseInt(SubSeq(chars, 7, 10)), ParseInt(SubSeq(chars, 4, 5)), ParseInt(SubSeq(chars, 1, 2)),
             ParseInt(SubSeq(chars, 12, 13)), ParseInt(SubSeq(chars, 15, 16)), 0)

\* ---------------------------------------------------------------------
\* Transport client (opaque): what one call can answer.
\* ---------------------------------------------------------------------

\* A raw punch as the transport returns it: its timestamp is a datetime.
PunchTime == DateTime(2024, 6, 15, 9, 0, 30)
RawPunches == {[user_id |-> 7, timestamp |-> AsDateTime(PunchTime), status |-> 1]}

RECURSIVE SeqsUpTo(_, _)
SeqsUpTo(S, n) ==
    IF n = 0 THEN {<<>>}
    ELSE LET shorter == SeqsUpTo(S, n - 1)
         IN  shorter \cup {Append(s, x) : s \in {q \in shorter : Len(q) = n - 1}, x \in S}

\* Answers of one get_attendance call: the punch list and conn.records after it.
ReadAnswers == [att : SeqsUpTo(RawPunches, MaxPunch), records : 0..MaxPunch]

\* uniform(0, 3) at its two ends.
Jitters == {0, MaxJitter}

\* ---------------------------------------------------------------------
\* ConnectionManager helpers
\* ---------------------------------------------------------------------

\* Faulty variant of the test: the session always counts as connected.
MutAlwaysConnected(t) == TRUE
\* is_connected(): self.conn is not None and self.conn.is_connect
is_connected(t) == t.conn = "up"

\* What str(e) of an exception of the transport client can hold: each of
\* the texts __handle_connection_error looks for, or none of them.
TransportMessages ==
    {"TCP packet invalid", "timed out", "[WinError 10040]", "unpack", "[WinError 10057]",
     "[WinError 10035]", "Instance is not connected.", "other"}

\* What a transport call does inside "with Timeout(timeout)": it returns,
\* the deadline passes (eventlet raises Timeout), or the client raises.
Returns == [type |-> "returned", message |-> "none"]
TransportFailures ==
    {[type |-> "Timeout", message |-> "none"]}
        \cup {[type |-> "Exception", message |-> m] : m \in TransportMessages}
TransportOutcomes(ok) == IF ok THEN {Returns} ELSE TransportFailures

ConnectionRefusedError(message) == [type |-> "ConnectionRefusedError", message |-> message]

\* Faulty variant of the classifier: an exception with none of the texts is
\* raised again as it is.
MutUnclassifiedReraised(e) ==
    IF e.message = "other" THEN e ELSE ConnectionRefusedError("clasificado")
\* __handle_connection_error(e): the first test that finds its text in
\* str(e) chooses the message; with none found the error is logged and a
\* bare ConnectionRefusedError is raised.
handle_connection_error(e) ==
    CASE e.message = "TCP packet invalid"
            -> ConnectionRefusedError("Error de paquete TCP invalido")
      [] e.message = "timed out"
            -> ConnectionRefusedError("Error de tiempo de espera agotado")
      [] e.message \in {"[WinError 10040]", "unpack"}
            -> ConnectionRefusedError("Error de recepcion/envio del mensaje")
      [] e.message \in {"[WinError 10057]", "[WinError 10035]", "Instance is not connected."}
            -> ConnectionRefusedError("Dispositivo no conectado")
      [] OTHER
            -> ConnectionRefusedError("")

\* __execute_network_operation(op) for what op does: what it returns to the
\* caller or raises ("except Timeout", "except Exception as e").
execute_network_operation(outcome) ==
    CASE outcome.type = "returned" -> outcome
      [] outcome.type = "Timeout"  -> ConnectionRefusedError("La operacion supero el tiempo maximo")
      [] OTHER                     -> handle_connection_error(outcome)

\* Faulty variant of the backoff: 2 * attempt for 2 ** attempt.
MutBackoffLinear(attempt, jitter) == Min(2 * attempt + jitter, MaxWait)
\* __exponential_backoff: wait_time = min(2 ** attempt + uniform(0, 3), 30)
exponential_backoff(attempt, jitter) == Min(2 ^ attempt + jitter, MaxWait)

\* Faulty variant of the last-attempt test: off by one.
MutLastConnectAttempt(attempt, max) == attempt = max
\* connect_with_retry: "if attempt == self.max_attempts - 1"
IsLastConnectAttempt(attempt, max) == attempt = max - 1

\* Faulty variant of the wrapper's last-attempt test: off by one.
MutLastWrapperAttempt(attempt, max) == attempt = max
\* __network_operation_wrapper: "if attempt == self.max_attempts - 1"
IsLastWrapperAttempt(attempt, max) == attempt = max - 1

\* Faulty variant of the last-round test: off by one.
MutLastRound(attempt, max) == attempt = max
\* get_attendances: "if attempt == self.max_attempts - 1"
IsLastRound(attempt, max) == attempt = max - 1

\* "for attempt in range(self.max_attempts)": is there a next iteration
HasNextAttempt(attempt, max) == attempt + 1 < max

\* Faulty variant of the record count comparison: it never fails.
MutMismatchNever(records, attendances) == FALSE
\* get_attendances: "if records != len(attendances)"
AttendanceMismatch(records, attendances) == records # Len(attendances)

\* Attendance.__init__: for a datetime timestamp, timestamp_str keeps the
\* datetime and timestamp becomes its "%d/%m/%Y %H:%M" string; for a string,
\* timestamp keeps it and timestamp_str is the datetime parsed from it.
Attendance(user_id, timestamp, status) ==
    [user_id |-> user_id,
     timestamp |-> IF timestamp.type = "datetime"
                   THEN AsStr(strftime(timestamp.at)) ELSE timestamp,
     timestamp_str |-> IF timestamp.type = "datetime"
                       THEN timestamp ELSE AsDateTime(strptime(timestamp.text)),
     id |-> "None",
     status |-> status]

\* get_attendances, the parsing loop: one Attendance per raw punch, in order.
ParseAttendances(attendances) ==
    [i \in 1..Len(attendances) |->
        Attendance(attendances[i].user_id, attendances[i].timestamp, attendances[i].status)]

\* A point in time, as the fields __validate_time compares.
NoTime == [year |-> 0, month |-> 0, day |-> 0, hour |-> 0, minute |-> 0]
\* datetime.today() of the local machine during the run.
LocalNow == [year |-> 2024, month |-> 6, day |-> 15, hour |-> 10, minute |-> 30]
\* What a device's clock may read: in step, a few minutes behind or ahead,
\* and off by an hour, a day, a month, a year.
DeviceTimes ==
    {LocalNow, [LocalNow EXCEPT !.minute = 25], [LocalNow EXCEPT !.minute = 26],
     [LocalNow EXCEPT !.minute = 35], [LocalNow EXCEPT !.hour = 11],
     [LocalNow EXCEPT !.day = 14], [LocalNow EXCEPT !.month = 5],
     [LocalNow EXCEPT !.year = 2023]}
\* The device clocks of the fleet runs: in step, and five minutes behind.
FleetTimes == {LocalNow, [LocalNow EXCEPT !.minute = 25]}
\* Successive values of datetime.today() on the local machine: update_time
\* reads it before set_time (newtime), __validate_time reads it again.
LocalClock == <<LocalNow, [LocalNow EXCEPT !.minute = 31]>>

Abs(x) == IF x < 0 THEN -x ELSE x

\* Faulty variant of the validation: a difference of five minutes passes.
MutOutdatedOverFive(zktime, newtime) ==
    \/ Abs(zktime.hour - newtime.hour) > 0
    \/ Abs(zktime.minute - newtime.minute) > 5
    \/ zktime.day # newtime.day
    \/ zktime.month # newtime.month
    \/ zktime.year # newtime.year
\* __validate_time: the condition under which OutdatedTimeError is raised.
OutdatedTime(zktime, newtime) ==
    \/ Abs(zktime.hour - newtime.hour) > 0
    \/ Abs(zktime.minute - newtime.minute) >= 5
    \/ zktime.day # newtime.day
    \/ zktime.month # newtime.month
    \/ zktime.year # newtime.year

\* Strings that the code takes apart are sequences of characters.
Letters == {"M", "u", "l", "t", "i", "B", "o", "I", "D", "S"}
Digits == {"0", "1", "2", "3", "5", "7"}
Whitespace == {" "}

\* re.sub(r'[^A-Za-z0-9\s/\-]', '', device_name)
AllowedChar(c) == c \in Letters \cup Digits \cup Whitespace \cup {"/", "-"}
Sanitize(name) == SelectSeq(name, AllowedChar)

\* "not device_name or device_name.isspace()"
IsBlank(name) == \A i \in 1..Len(name) : name[i] \in Whitespace

\* device_name.replace(" ", "")
NotSpace(c) == c # " "
RemoveSpaces(name) == SelectSeq(name, NotSpace)

\* The serial number with a hardcoded name, and that name.
OverrideSerial == <<"5", "2", "3", "5", "7", "0", "2", "5", "2", "0", "0", "3", "0">>
OverrideName == <<"M", "u", "l", "t", "i", "B", "i", "o", "7", "0", "0", "/", "I", "D">>

\* What get_device_name and get_serialnumber may answer.
DeviceNames == {<<>>, <<"M", "#", "1">>}
SerialNumbers == {<<>>, OverrideSerial}

\* The session of a device before its ConnectionManager exists.
IdleTask ==
    [pc |-> "idle", op |-> "none", call |-> "none",
     attempt |-> 0, oattempt |-> 0, conn |-> "none", wait |-> 0,
     attendances |-> <<>>, records |-> 0, zktime |-> NoTime, name |-> <<>>,
     newtime |-> 0, today |-> 0,
     ret |-> "none", cause |-> "none",
     tries |-> 0, sleeps |-> 0, nerr |-> 0, rounds |-> 0, reads |-> 0,
     execs |-> 0, refails |-> 0, reads_made |-> 0, traced |-> FALSE,
     nop |-> "none", stage |-> "none", tret |-> "none", tval |-> 0,
     accepted |-> FALSE, mism |-> 0, mwait |-> 0, fails |-> FALSE,
     wrote |-> {}, wname |-> <<>>, rmw |-> {}, overlap |-> FALSE,
     bret |-> "none", bval |-> 0, incr |-> 0, emits |-> <<>>]

\* An operation of the ConnectionManager returns / raises to its caller.
Return(t) == [t EXCEPT !.pc = "op_done", !.ret = "ok", !.cause = "none", !.wait = 0]
Raise(t, exc, cause) == [t EXCEPT !.pc = "op_done", !.ret = exc, !.cause = cause, !.wait = 0]

\* Start of a retry loop (connect_with_retry, __network_operation_wrapper).
StartLoop(t, pc, call) ==
    [t EXCEPT !.pc = pc, !.call = call, !.attempt = 0,
              !.tries = 0, !.sleeps = 0, !.nerr = 0, !.execs = 0, !.refails = 0]

\* What a transport call answers when it succeeds; today is the reading of
\* the local clock that follows the call in update_time (an index into
\* LocalClock, 0 where no reading follows).
NoAnswer == [att |-> <<>>, records |-> 0, time |-> NoTime, name |-> <<>>, today |-> 0]
Answers(call) ==
    CASE call = "get_attendance"   -> {[NoAnswer EXCEPT !.att = r.att, !.records = r.records] : r \in ReadAnswers}
      [] call = "get_time"         -> {[NoAnswer EXCEPT !.time = x, !.today = k] :
                                           x \in DeviceTimes, k \in 1..Len(LocalClock)}
      [] call = "set_time"         -> {[NoAnswer EXCEPT !.today = k] : k \in 1..Len(LocalClock)}
      [] call = "get_device_name"  -> {[NoAnswer EXCEPT !.name = x] : x \in DeviceNames}
      [] call = "get_serialnumber" -> {[NoAnswer EXCEPT !.name = x] : x \in SerialNumbers}
      [] OTHER                     -> {NoAnswer}

\* How the device of a task behaves during the run (batch.plan): "any"
\* leaves every call free to succeed or fail; "ok" lets every call succeed
\* and every read agree with the record count; "mismatch_once" is "ok" but
\* for the first read of the attendances, which disagrees; "unreachable"
\* refuses every connection; "drift" is "ok" with the names and the clock of
\* the device left free.  In the fleet runs a device clock is one of
\* FleetTimes and the local clock stays at its first reading.
ConnectOutcomes(d) ==
    CASE batch.plan[d] = "any"         -> BOOLEAN
      [] batch.plan[d] = "unreachable" -> {FALSE}
      [] OTHER                         -> {TRUE}

CallOutcomes(d) == IF batch.plan[d] = "any" THEN BOOLEAN ELSE {TRUE}

DeviceAnswers(d, t) ==
    LET all == {a \in Answers(t.call) : a.today = 0 \/ a.today >= t.newtime}
    IN  CASE batch.plan[d] = "any" /\ batch.op = "none" -> all
          [] batch.plan[d] = "any" -> {a \in all : a.time \in {NoTime} \cup FleetTimes
                                                    /\ a.today \in {0, 1}}
          [] batch.plan[d] = "mismatch_once" /\ t.call = "get_attendance" /\ t.mism = 0
                                   -> {a \in all : a.records # Len(a.att)}
          [] batch.plan[d] = "drift" -> {a \in all : a.records = Len(a.att)
                                                      /\ a.time \in {NoTime} \cup FleetTimes
                                                      /\ a.today \in {0, 1}}
          [] OTHER                 -> {a \in all : a.records = Len(a.att)
                                                    /\ a.time \in {NoTime, LocalNow}
                                                    /\ a.today \in {0, 1}}

\* ---------------------------------------------------------------------
\* connect_with_retry
\* ---------------------------------------------------------------------

\* A caller invokes connect_with_retry().
CallConnectWithRetry(d) ==
    /\ task[d].pc \in {"idle", "op_done"}
    /\ task' = [task EXCEPT ![d] =
                  StartLoop([@ EXCEPT !.op = "connect_with_retry", !.ret = "none",
                                      !.cause = "none"], "cwr_try", "connect")]
    /\ UNCHANGED fleet_vars

\* One iteration of the loop: connect(), and the handler of its
\* ConnectionRefusedError.
ConnectAttempt(d) ==
    LET t == task[d] IN
    /\ t.pc = "cwr_try"
    /\ \E ok \in ConnectOutcomes(d) : \E o \in TransportOutcomes(ok), jitter \in Jitters :
         LET t1 == [t EXCEPT !.tries = @ + 1, !.fails = @ \/ ~ok]
             out == execute_network_operation(o)
         IN
         task' = [task EXCEPT ![d] =
            CASE out.type = "returned" -> Return([t1 EXCEPT !.conn = "up"])
              [] out.type = "ConnectionRefusedError" ->
                 IF IsLastConnectAttempt(t.attempt, max_attempts)
                 THEN Raise([t1 EXCEPT !.nerr = @ + 1], "NetworkError", "ConnectionRefusedError")
                 ELSE [t1 EXCEPT !.pc = "cwr_sleep", !.sleeps = @ + 1,
                                 !.wait = exponential_backoff(t.attempt, jitter)]
              [] OTHER -> Raise(t1, out.type, out.type)]
    /\ UNCHANGED fleet_vars

\* The backoff sleep ends; the loop goes on, or falls out to the sentinel.
ConnectWake(d) ==
    LET t == task[d] IN
    /\ t.pc = "cwr_sleep"
    /\ task' = [task EXCEPT ![d] =
          IF HasNextAttempt(t.attempt, max_attempts)
          THEN [t EXCEPT !.pc = "cwr_try", !.attempt = @ + 1, !.wait = 0]
          ELSE Raise(t, "BaseError0000", "none")]
    /\ UNCHANGED fleet_vars

\* ---------------------------------------------------------------------
\* __network_operation_wrapper and the operations built on it
\* ---------------------------------------------------------------------

\* get_attendances, after the wrapped get_attendance returned: the record
\* count comparison, the mismatch handler, and after "break" the parsing loop.
\* (The second read and its comparison are inside a string literal: not
\* executed.)
AfterRead(t, ans, jitter) ==
    LET t1 == [t EXCEPT !.attendances = ans.att, !.records = ans.records, !.reads = @ + 1] IN
    IF AttendanceMismatch(t1.records, t1.attendances)
    THEN LET t2 == [t1 EXCEPT !.mism = @ + 1] IN
         IF IsLastRound(t2.oattempt, max_attempts)
         THEN Raise(t2, "ObtainAttendancesError", "AttendanceMismatchError")
         ELSE [t2 EXCEPT !.pc = "ga_sleep",
                         !.wait = exponential_backoff(t2.oattempt, jitter),
                         !.mwait = exponential_backoff(t2.oattempt, jitter)]
    ELSE Return([t1 EXCEPT !.attendances = ParseAttendances(t1.attendances),
                           !.accepted = TRUE])

\* Faulty variant of update_time: the device time is validated as soon as
\* it is read, before set_time is called.
MutValidateBeforeWrite(t, ans) ==
    IF t.call = "get_time"
    THEN IF OutdatedTime(ans.time, LocalClock[ans.today])
         THEN Raise([t EXCEPT !.zktime = ans.time, !.today = ans.today],
                    "OutdatedTimeError", "OutdatedTimeError")
         ELSE StartLoop([t EXCEPT !.zktime = ans.time, !.newtime = ans.today], "w_try", "set_time")
    ELSE Return([t EXCEPT !.today = ans.today])
\* update_time, after the wrapped get_time returned: newtime is read from
\* the local clock and set_time(newtime) is called; after set_time
\* returned: __validate_time(zktime), which reads the local clock again.
AfterTimeCall(t, ans) ==
    IF t.call = "get_time"
    THEN StartLoop([t EXCEPT !.zktime = ans.time, !.newtime = ans.today], "w_try", "set_time")
    ELSE LET t1 == [t EXCEPT !.today = ans.today] IN
         IF OutdatedTime(t.zktime, LocalClock[ans.today])
         THEN Raise(t1, "OutdatedTimeError", "OutdatedTimeError")
         ELSE Return(t1)

\* update_time() is entered.  self.conn.get_time on a session that never
\* connected is an AttributeError, which update_time does not handle.
BeginUpdateTime(t) ==
    LET t1 == [t EXCEPT !.op = "update_time", !.ret = "none", !.cause = "none",
                        !.zktime = NoTime, !.newtime = 0, !.today = 0] IN
    IF t.conn = "none" THEN Raise(t1, "AttributeError", "AttributeError")
    ELSE StartLoop(t1, "w_try", "get_time")

\* A caller invokes update_time(); what an earlier get_attendances call
\* left behind is gone with its frame.
CallUpdateTime(d) ==
    /\ task[d].pc \in {"idle", "op_done"}
    /\ task' = [task EXCEPT ![d] =
          BeginUpdateTime([@ EXCEPT !.oattempt = 0, !.rounds = 0, !.reads = 0, !.reads_made = 0,
                                    !.attendances = <<>>, !.records = 0, !.accepted = FALSE,
                                    !.mism = 0, !.mwait = 0])]
    /\ UNCHANGED fleet_vars

\* update_device_name, after get_device_name or get_serialnumber returned.
\* The raise of BaseError(3000, ...) formats str(e) with no e bound.
AfterNameCall(t, ans) ==
    LET device_name == IF t.call = "get_device_name" THEN Sanitize(ans.name)
                       ELSE IF ans.name = OverrideSerial THEN OverrideName ELSE ans.name
    IN  IF ~IsBlank(device_name)
        THEN [t EXCEPT !.pc = "udn_write", !.name = RemoveSpaces(device_name)]
        ELSE IF t.call = "get_device_name"
             THEN StartLoop([t EXCEPT !.name = device_name], "w_try", "get_serialnumber")
             ELSE Raise(t, "UnboundLocalError", "none")

\* The wrapped call returned: back in the operation that made it.
OnWrapperResult(t, ans, jitter) ==
    CASE t.op = "get_attendances"      -> AfterRead(t, ans, jitter)
      [] t.op = "get_attendance_count" -> Return([t EXCEPT !.records = ans.records])
      [] t.op = "update_time"          -> AfterTimeCall(t, ans)
      [] t.op = "update_device_name"   -> AfterNameCall(t, ans)
      [] OTHER                         -> Return(t)

\* Faulty variant of the handlers: get_attendances treats the wrapper's
\* NetworkError like a mismatch and goes on to the next round.
MutNetworkErrorRetried(t) ==
    CASE t.op = "get_attendances" ->
           IF IsLastRound(t.oattempt, max_attempts)
           THEN Raise(t, "ObtainAttendancesError", "NetworkError")
           ELSE [t EXCEPT !.pc = "ga_sleep", !.wait = 0]
      [] t.op = "update_device_name" -> Raise(t, "UnboundLocalError", "NetworkError")
      [] OTHER                       -> Raise(t, "NetworkError", "NetworkError")
\* The wrapper raised NetworkError: the handler of the operation that called
\* it.  update_device_name logs it and goes on to read device_name (never
\* bound) or to format str(e) (unbound after the handler): UnboundLocalError.
OnWrapperError(t) ==
    CASE t.op = "get_attendances"    -> Raise(t, "ObtainAttendancesError", "NetworkError")
      [] t.op = "update_device_name" -> Raise(t, "UnboundLocalError", "NetworkError")
      [] OTHER                       -> Raise(t, "NetworkError", "NetworkError")

\* The wrapper's loop ran out: raise BaseError(0000, "Codigo inalcanzable").
OnWrapperUnreachable(t) == Raise(t, "BaseError0000", "BaseError0000")

\* The wrapper's "except ConnectionRefusedError" handler.
OnRefused(t, jitter) ==
    IF IsLastWrapperAttempt(t.attempt, max_attempts)
    THEN OnWrapperError([t EXCEPT !.nerr = @ + 1])
    ELSE [t EXCEPT !.pc = "w_sleep", !.sleeps = @ + 1,
                   !.wait = exponential_backoff(t.attempt, jitter)]

\* "result = self.__execute_network_operation(op, *args)" in the wrapper,
\* out being what the call returns or raises: the result is returned, a
\* ConnectionRefusedError goes to the wrapper's handler, anything else
\* leaves the wrapper.  A failed call may leave the client's is_connect flag
\* cleared.
Execute(t0, out, ans, drop, jitter) ==
    LET t == [t0 EXCEPT !.execs = @ + 1,
                        !.reads_made = IF t0.traced /\ t0.op = "get_attendances"
                                           THEN @ + 1 ELSE @]
        failed == [t EXCEPT !.conn = IF drop THEN "down" ELSE @, !.fails = TRUE] IN
    CASE out.type = "returned"               -> OnWrapperResult(t, ans, jitter)
      [] out.type = "ConnectionRefusedError" -> OnRefused(failed, jitter)
      [] OTHER                               -> Raise(failed, out.type, out.type)

\* One iteration of the wrapper's loop: when the session is connected the
\* operation is executed; otherwise reset_connection() runs first.
WrapperAttempt(d) ==
    LET t == task[d] IN
    /\ t.pc = "w_try"
    /\ \E ok \in CallOutcomes(d) : \E o \in TransportOutcomes(ok), ans \in DeviceAnswers(d, t),
          drop \in BOOLEAN, jitter \in Jitters :
         LET t1 == [t EXCEPT !.tries = @ + 1]
             out == execute_network_operation(o)
             failed == [t1 EXCEPT !.conn = "none", !.fails = TRUE, !.refails = @ + 1]
         IN
         task' = [task EXCEPT ![d] =
            IF is_connected(t)
            THEN Execute(t1, out, ans, drop, jitter)
            ELSE CASE out.type = "returned"               -> [t1 EXCEPT !.conn = "up", !.pc = "w_exec"]
                   [] out.type = "ConnectionRefusedError" -> OnRefused(failed, jitter)
                   [] OTHER                               -> Raise(failed, out.type, out.type)]
    /\ UNCHANGED fleet_vars

\* The operation is executed after a successful reset_connection().
WrapperExec(d) ==
    LET t == task[d] IN
    /\ t.pc = "w_exec"
    /\ \E ok \in CallOutcomes(d) : \E o \in TransportOutcomes(ok), ans \in DeviceAnswers(d, t),
          drop \in BOOLEAN, jitter \in Jitters :
         task' = [task EXCEPT ![d] = Execute(t, execute_network_operation(o), ans, drop, jitter)]
    /\ UNCHANGED fleet_vars

\* Faulty variant of the wrapper's loop: the attempt number stays as it is.
MutWrapperWakeSameAttempt(d) ==
    /\ task[d].pc = "w_sleep"
    /\ task' = [task EXCEPT ![d] = [@ EXCEPT !.pc = "w_try", !.wait = 0]]
    /\ UNCHANGED fleet_vars
\* The wrapper's backoff sleep ends.
WrapperWake(d) ==
    LET t == task[d] IN
    /\ t.pc = "w_sleep"
    /\ task' = [task EXCEPT ![d] =
          IF HasNextAttempt(t.attempt, max_attempts)
          THEN [t EXCEPT !.pc = "w_try", !.attempt = @ + 1, !.wait = 0]
          ELSE OnWrapperUnreachable(t)]
    /\ UNCHANGED fleet_vars

\* ---------------------------------------------------------------------
\* get_attendances
\* ---------------------------------------------------------------------

\* One round of the outer loop starts: the wrapped get_attendance call.
StartRound(t) ==
    StartLoop([t EXCEPT !.rounds = @ + 1, !.reads = 0, !.wait = 0], "w_try", "get_attendance")

\* get_attendances() is entered.  self.conn.get_attendance on a session that
\* never connected is an AttributeError, re-raised as BaseError(0000).
BeginGetAttendances(t) ==
    LET t1 == [t EXCEPT !.op = "get_attendances", !.ret = "none", !.cause = "none",
                        !.zktime = NoTime, !.newtime = 0, !.today = 0,
                        !.oattempt = 0, !.rounds = 0, !.reads_made = 0, !.attendances = <<>>,
                        !.records = 0, !.accepted = FALSE, !.mism = 0, !.mwait = 0] IN
    IF t.conn = "none" THEN Raise(t1, "BaseError0000", "AttributeError")
    ELSE StartRound(t1)

\* A caller invokes get_attendances().
CallGetAttendances(d) ==
    /\ task[d].pc \in {"idle", "op_done"}
    /\ task' = [task EXCEPT ![d] = BeginGetAttendances(@)]
    /\ UNCHANGED fleet_vars

\* The backoff sleep after a mismatch ends: the next round, or the end of
\* the loop and the parsing of what was read last.
GAWake(d) ==
    LET t == task[d] IN
    /\ t.pc = "ga_sleep"
    /\ task' = [task EXCEPT ![d] =
          IF HasNextAttempt(t.oattempt, max_attempts)
          THEN StartRound([t EXCEPT !.oattempt = @ + 1])
          ELSE Return([t EXCEPT !.attendances = ParseAttendances(t.attendances),
                                !.accepted = TRUE])]
    /\ UNCHANGED fleet_vars

\* ---------------------------------------------------------------------
\* update_device_name: the rewrite of the registry
\* ---------------------------------------------------------------------

\* Faulty variant of the rewrite: the name is set on every line, and the
\* file is written also when the name is already there.
MutRenameEveryLine(lines, ip, device_name) ==
    [i \in 1..Len(lines) |-> [lines[i] EXCEPT !.model_name = device_name]]
\* Faulty variant of the rewrite: the lines read at the start of the batch
\* are written back, not the lines the file holds now.
MutRewriteStale(lines, ip, device_name) ==
    LET stale == main.device_info IN
    IF \E i \in 1..Len(stale) : stale[i].ip = ip /\ stale[i].model_name = device_name
    THEN lines
    ELSE [i \in 1..Len(stale) |->
            IF stale[i].ip = ip THEN [stale[i] EXCEPT !.model_name = device_name]
            ELSE stale[i]]
\* The loop over the lines of info_devices.txt: the first line of this IP
\* that already carries the name returns at once, nothing is written;
\* otherwise every line of this IP gets the name and the file is rewritten.
RewriteName(lines, ip, device_name) ==
    IF \E i \in 1..Len(lines) : lines[i].ip = ip /\ lines[i].model_name = device_name
    THEN lines
    ELSE [i \in 1..Len(lines) |->
            IF lines[i].ip = ip THEN [lines[i] EXCEPT !.model_name = device_name]
            ELSE lines[i]]

\* The first line of this IP already carries the name: "return device_name"
\* inside the loop, before anything is written.
AlreadyNamed(lines, ip, device_name) ==
    \E i \in 1..Len(lines) : lines[i].ip = ip /\ lines[i].model_name = device_name

\* The locks a rewrite of info_devices.txt can be made under: none, or the
\* Semaphore a ConnectionManager creates for itself in __init__.
NoLock == <<"none">>
InstanceLock(d) == <<"ConnectionManager.lock", d>>

\* Green threads other than that of d that have started and not finished.
OthersRunning(d) == \E x \in Devices \ {d} : task[x].pc \notin {"idle", "t_done"}

\* The task of d has rewritten the file: which field it set, and the lock
\* held while the file was read and while it was written.
Rewrote(t, d, field, read_lock, write_lock) ==
    [t EXCEPT !.wrote = @ \cup {field},
              !.rmw = @ \cup {[field |-> field, read_lock |-> read_lock,
                               write_lock |-> write_lock]},
              !.overlap = @ \/ OthersRunning(d)]

\* The file is read, rewritten and written back; a failure of the file
\* operations is logged (BaseError 3001 is built, not raised) and the name
\* is returned all the same.  The file is read with no lock held and written
\* under self.lock; nothing between the read and the write switches to
\* another green thread.
UpdateNameWrite(d) ==
    LET t == task[d] IN
    /\ t.pc = "udn_write"
    /\ \E ok \in CallOutcomes(d) :
         /\ registry' = IF ok THEN RewriteName(registry, d, t.name) ELSE registry
         /\ task' = [task EXCEPT ![d] =
               Return(IF ok /\ ~AlreadyNamed(registry, d, t.name)
                      THEN Rewrote([t EXCEPT !.wname = t.name], d, "name",
                                   NoLock, InstanceLock(d))
                      ELSE t)]
    /\ UNCHANGED <<max_attempts, batch, main, state>>

\* ---------------------------------------------------------------------
\* format_attendances (attendances_manager)
\* ---------------------------------------------------------------------

\* maping_dictionary: the configured label of a status code, 0 for the rest.
maping_dictionary(number) ==
    CASE number = 1       -> "fingerprint"
      [] number = 15      -> "face"
      [] number \in {0, 2, 4} -> "card"
      [] OTHER            -> "0"

\* attendance.timestamp.strftime(...) needs a datetime: on the string an
\* Attendance object carries it is an AttributeError.
FormatRaises(attendances) ==
    \E i \in 1..Len(attendances) : attendances[i].timestamp.type # "datetime"

\* format_attendances, the dict built for one attendance
FormatOne(attendance, id) ==
    [user_id |-> zfill(Str(attendance.user_id), 9),
     timestamp |-> AsStr(strftime(attendance.timestamp.at)),
     id |-> id,
     status |-> maping_dictionary(attendance.status)]

format_attendances(attendances, id) ==
    [i \in 1..Len(attendances) |-> FormatOne(attendances[i], id)]

\* is_three_months_old(timestamp), with the datetime.now() it reads
is_three_months_old(timestamp, now) == DateTimeLeq(timestamp, MinusThreeMonths(now))

\* Faulty variant of the future test: a punch dated at the reading counts.
MutFutureIncludesNow(timestamp, now) == DateTimeLeq(now, timestamp)
\* is_in_the_future(timestamp), with the datetime.now() it reads
is_in_the_future(timestamp, now) == DateTimeLess(now, timestamp)

\* "if is_three_months_old(...) or is_in_the_future(...)" for one punch;
\* reading is the pair of datetime.now() values the two tests read.
IsFlagged(timestamp, reading) ==
    \/ is_three_months_old(timestamp, reading[1])
    \/ is_in_the_future(timestamp, reading[2])

\* BaseError(2003, attendance_formatted, level="warning"): built, which
\* logs it, and not raised.
Warning2003(attendance_formatted) ==
    [code |-> 2003, level |-> "warning", extra_info |-> attendance_formatted]

\* Faulty variant of the loop body: a flagged punch is left out.
MutDropFlagged(formatted_attendances, attendance_formatted, flagged) ==
    IF flagged THEN formatted_attendances
    ELSE Append(formatted_attendances, attendance_formatted)
\* format_attendances, "formatted_attendances.append(attendance_formatted)":
\* it comes before the tests, whatever they answer.
AppendFormatted(formatted_attendances, attendance_formatted, flagged) ==
    Append(formatted_attendances, attendance_formatted)

\* format_attendances run on datetimes with the clock readings of each
\* iteration: the list returned and the warnings logged on the way.
RECURSIVE FormatLoop(_, _, _, _, _)
FormatLoop(attendances, id, readings, i, acc) ==
    IF i > Len(attendances) THEN acc
    ELSE LET attendance_formatted == FormatOne(attendances[i], id)
             flagged == IsFlagged(attendances[i].timestamp.at, readings[i])
         IN  FormatLoop(attendances, id, readings, i + 1,
                 [formatted_attendances |-> AppendFormatted(acc.formatted_attendances,
                                                            attendance_formatted, flagged),
                  warnings |-> IF flagged
                               THEN Append(acc.warnings, Warning2003(attendance_formatted))
                               ELSE acc.warnings])

\* The status codes attendance_status_dictionary has a label for.
MappedCodes == {0, 1, 2, 4, 15}

\* Attendance.format_attendance: user_id is padded, then status is mapped;
\* mapping_dictionary raises ValueError for a code with no label, which the
\* method catches: it builds BaseError(3000) without raising it and status
\* keeps the raw code ("raw" here, the code is in the field code).
Attendance_format_attendance(a) ==
    [user_id |-> zfill(Str(a.user_id), 9),
     status |-> IF a.status \in MappedCodes THEN maping_dictionary(a.status) ELSE "raw",
     code |-> a.status,
     logged |-> IF a.status \in MappedCodes THEN 0 ELSE 3000,
     raised |-> "none"]

\* Attendance.is_three_months_old and Attendance.is_in_the_future: the same
\* tests on timestamp_str.
Attendance_is_three_months_old(a, now) == DateTimeLeq(a.timestamp_str.at, MinusThreeMonths(now))
Attendance_is_in_the_future(a, now) == DateTimeLess(now, a.timestamp_str.at)

\* ---------------------------------------------------------------------
\* network_operation_with_retry (device_manager; its code is not part of
\* this source tree): a ConnectionManager is created for the device, it is
\* connected with connect_with_retry, the operation named by the caller is
\* invoked on it, and the session is disconnected whatever the outcome.
\* A connection that cannot be made reaches the caller as
\* ConnectionFailedError, the exception every caller handles.
\* ---------------------------------------------------------------------

BeginNetOp(t, nop, stage) ==
    StartLoop([t EXCEPT !.nop = nop, !.stage = stage, !.op = "connect_with_retry",
                        !.conn = "none", !.ret = "none", !.cause = "none"],
              "cwr_try", "connect")

\* The named operation is entered on the connected session.
CallOperation(t) ==
    LET t1 == [t EXCEPT !.op = t.nop, !.ret = "none", !.cause = "none"] IN
    CASE t.nop = "get_attendances"      -> BeginGetAttendances(t)
      [] t.nop = "get_attendance_count" -> StartLoop(t1, "w_try", "get_attendance")
      [] t.nop = "update_time"          -> BeginUpdateTime(t)
      [] t.nop = "update_device_name"   -> StartLoop(t1, "w_try", "get_device_name")

\* What network_operation_with_retry hands to its caller.
Delivered(t) ==
    IF t.op = "connect_with_retry" THEN "ConnectionFailedError" ELSE t.ret

\* ---------------------------------------------------------------------
\* SharedState.calculate_progress: int((processed / total) * 100) in the
\* float arithmetic of Python (IEEE 754 binary64, round to nearest, ties to
\* even).  A float above zero is its 53-bit significand, kept in three
\* limbs (the leading 17 bits, then 18 and 18 bits), and the exponent of its
\* leading bit; zero has the limbs 0, 0, 0.
\* ---------------------------------------------------------------------

\* Bits of the two lower limbs of a significand.
LimbBits == 18
Limb == 2 ^ LimbBits
\* The leading limb of a significand is in TopLimb .. 2 * TopLimb - 1.
TopLimb == 2 ^ (LimbBits - 2)

FloatZero == [m |-> <<0, 0, 0>>, exp |-> 0]

\* The significand m, or the next one above it when the dropped digits
\* round up; a significand of 2^53 is 2^52 with the exponent one higher.
RoundUp(m, exp, up) ==
    IF ~up THEN [m |-> m, exp |-> exp]
    ELSE LET s3 == m[3] + 1
             s2 == m[2] + s3 \div Limb
             s1 == m[1] + s2 \div Limb
         IN  IF s1 = 2 * TopLimb THEN [m |-> <<TopLimb, 0, 0>>, exp |-> exp + 1]
             ELSE [m |-> <<s1, s2 % Limb, s3 % Limb>>, exp |-> exp]

\* The exponent of a / b: 2^exp <= a / b < 2^(exp + 1), for a, b > 0.
RECURSIVE ExponentOf(_, _)
ExponentOf(a, b) ==
    IF a >= 2 * b THEN ExponentOf(a, 2 * b) + 1
    ELSE IF a < b THEN ExponentOf(2 * a, b) - 1
    ELSE 0

\* a / b of two ints (a >= 0, b > 0): the float nearest to the quotient.
\* The 52 digits after the leading one come from three long-division steps;
\* what is left decides the rounding.
FloatDiv(a, b) ==
    IF a = 0 THEN FloatZero
    ELSE LET exp == ExponentOf(a, b)
             num == IF exp < 0 THEN a * 2 ^ (-exp) ELSE a
             den == IF exp > 0 THEN b * 2 ^ exp ELSE b
             t1 == (num - den) * TopLimb
             t2 == (t1 % den) * Limb
             t3 == (t2 % den) * Limb
             rem == t3 % den
             up == 2 * rem > den \/ (2 * rem = den /\ (t3 \div den) % 2 = 1)
         IN  RoundUp(<<TopLimb + t1 \div den, t2 \div den, t3 \div den>>, exp, up)

\* x * k for a float x and an int k (0 < k < 2^13): the float nearest to
\* the product.  The product of the significand is shifted down by the
\* digits it has grown by; the digits shifted out decide the rounding.
FloatMul(x, k) ==
    IF x.m[1] = 0 THEN FloatZero
    ELSE LET p3 == x.m[3] * k
             p2 == x.m[2] * k + p3 \div Limb
             p1 == x.m[1] * k + p2 \div Limb
             shift == CHOOSE n \in 0..(LimbBits - 5) :
                         2 ^ n * TopLimb <= p1 /\ p1 < 2 ^ (n + 1) * TopLimb
             d == 2 ^ shift
             m1 == p1 \div d
             m2 == (p1 % d) * (Limb \div d) + (p2 % Limb) \div d
             m3 == ((p2 % Limb) % d) * (Limb \div d) + (p3 % Limb) \div d
             dropped == (p3 % Limb) % d
             up == 2 * dropped > d \/ (2 * dropped = d /\ m3 % 2 = 1)
         IN  RoundUp(<<m1, m2, m3>>, x.exp + shift, up)

\* int(x) for a float x >= 0 below 2^31: the digits before the binary point.
FloatToInt(x) ==
    IF x.m[1] = 0 \/ x.exp < 0 THEN 0
    ELSE IF x.exp <= LimbBits - 2 THEN x.m[1] \div 2 ^ (LimbBits - 2 - x.exp)
    ELSE x.m[1] * 2 ^ (x.exp - LimbBits + 2) + x.m[2] \div 2 ^ (2 * LimbBits - 2 - x.exp)

\* calculate_progress
calculate_progress(st) ==
    IF st.total_devices > 0
    THEN FloatToInt(FloatMul(FloatDiv(st.processed_devices, st.total_devices), 100))
    ELSE 0

\* get_total_devices
get_total_devices(st) == st.total_devices

\* Faulty variant of reset: the processed count is kept.
MutResetKeepsCount(st) == st
\* reset
reset(st) == [st EXCEPT !.processed_devices = 0]

\* ---------------------------------------------------------------------
\* The device tasks: manage_device_attendance_single,
\* get_device_attendance_count_single, update_device_time_single
\* ---------------------------------------------------------------------

\* The body of the task ends: it returns tval, or raises tret (also kept as
\* bret and bval, the outcome before the "finally" block runs).  What the
\* task no longer needs is dropped with its frame.
Finish(t, tret, tval) ==
    [IdleTask EXCEPT !.pc = "t_done", !.tret = tret, !.tval = tval,
                     !.bret = tret, !.bval = tval,
                     !.records = t.records, !.rounds = t.rounds, !.attendances = t.attendances,
                     !.accepted = t.accepted, !.mism = t.mism, !.mwait = t.mwait,
                     !.fails = t.fails,
                     !.wrote = t.wrote, !.wname = t.wname, !.rmw = t.rmw,
                     !.overlap = t.overlap]

\* "except ConnectionFailedError: raise NetworkError(model_name, point, ip)":
\* NetworkError takes one argument, the raise ends in a TypeError.
Reraised(exc) == IF exc = "ConnectionFailedError" THEN "TypeError" ELSE exc

\* manage_device_attendance_single after network_operation_with_retry
\* ("get_attendances") came back: format_attendances, then the device name
\* in an interactive run, then the saving of the files.
AfterGetAttendances(t, exc) ==
    IF exc # "ok" THEN Finish(t, Reraised(exc), 0)
    ELSE IF FormatRaises(t.attendances) THEN Finish(t, "AttributeError", 0)
    ELSE LET t1 == [t EXCEPT !.attendances = format_attendances(t.attendances, "id")] IN
         IF ~batch.from_service
         THEN BeginNetOp(t1, "update_device_name", "name")
         ELSE [t1 EXCEPT !.pc = "t_save", !.stage = "save", !.conn = "none"]

\* ... after network_operation_with_retry("update_device_name") came back.
AfterUpdateName(t, exc) ==
    IF exc # "ok" THEN Finish(t, Reraised(exc), 0)
    ELSE [t EXCEPT !.pc = "t_save", !.stage = "save", !.conn = "none"]

\* ... after update_device_time_single(info) came back: NetworkError is
\* passed over, BatteryFailingError leads to update_battery_status, anything
\* else is logged; then "return len(attendances)".
AfterInnerTime(t, exc) ==
    IF exc = "OutdatedTimeError"
    THEN [t EXCEPT !.pc = "t_battery", !.stage = "battery", !.conn = "none"]
    ELSE Finish(t, "returned", Len(t.attendances))

\* get_device_attendance_count_single after its network operation.
AfterCount(t, exc) ==
    IF exc = "ok" THEN Finish(t, "returned", t.records)
    ELSE Finish(t, Reraised(exc), 0)

\* update_device_time_single (as a task of update_devices_time) after its
\* network operation.
AfterTime(t, exc) ==
    CASE exc = "ok"                -> Finish(t, "returned", 0)
      [] exc = "OutdatedTimeError" -> Finish(t, "BatteryFailingError", 0)
      [] OTHER                     -> Finish(t, Reraised(exc), 0)

\* The caller of network_operation_with_retry goes on.
Continue(t, exc) ==
    CASE t.stage = "get"        -> AfterGetAttendances(t, exc)
      [] t.stage = "name"       -> AfterUpdateName(t, exc)
      [] t.stage = "inner_time" -> AfterInnerTime(t, exc)
      [] t.stage = "count"      -> AfterCount(t, exc)
      [] t.stage = "time"       -> AfterTime(t, exc)

\* Faulty variant of the increment: the count is not stored.
MutIncrementLost(st) == st
\* increment_processed_devices, in the "finally" of the tasks that are given
\* the SharedState.
increment_processed_devices(st) == [st EXCEPT !.processed_devices = @ + 1]

TaskEnds(t1) ==
    state' = IF t1.pc = "t_done" /\ batch.op \in {"attendances", "time"}
             THEN increment_processed_devices(state) ELSE state

\* The keyword arguments of one emit_progress call; the percentage is
\* computed after the increment, on the SharedState as it is then.
Emit(st, ip, processed_devices) ==
    [percent_progress |-> calculate_progress(st), device_progress |-> ip,
     processed_devices |-> processed_devices, total_devices |-> get_total_devices(st)]

\* Faulty variant of the handler: what the callback raises leaves the task.
MutCallbackEscapes(t, raised) ==
    IF raised THEN [t EXCEPT !.tret = "Exception", !.tval = 0] ELSE t
\* "except Exception as e: logging.error(e)" around the increment and the
\* callback: what emit_progress raises is logged.
CallbackHandled(t, raised) == t

\* The "finally" block of a task that is given the SharedState: the
\* increment, and when a callback was supplied its one call, with the count
\* the increment returned.  g.wait() then returns tval, or raises tret.
Finally(d, t1) ==
    IF t1.pc = "t_done" /\ batch.op \in {"attendances", "time"}
    THEN LET st == increment_processed_devices(state)
             t2 == [t1 EXCEPT !.incr = st.processed_devices]
         IN  IF batch.emit_progress = "none" THEN t2
             ELSE CallbackHandled(
                     [t2 EXCEPT !.emits = Append(@, Emit(st, d, st.processed_devices))],
                     batch.emit_progress = "raises")
    ELSE t1

\* The green thread of a device starts to run its function.
TaskStart(d) ==
    LET t == task[d] IN
    /\ t.pc = "t_start"
    /\ task' = [task EXCEPT ![d] =
          CASE batch.op = "attendances" -> BeginNetOp(t, "get_attendances", "get")
            [] batch.op = "count"       -> BeginNetOp(t, "get_attendance_count", "count")
            [] batch.op = "time"        -> BeginNetOp(t, "update_time", "time")
            [] OTHER                    -> [t EXCEPT !.pc = "t_body", !.stage = "body"]]
    /\ UNCHANGED fleet_vars

\* connect_with_retry returned: the operation is invoked.
NetOpCall(d) ==
    LET t == task[d] IN
    /\ t.pc = "op_done" /\ t.stage # "none"
    /\ t.op = "connect_with_retry" /\ t.ret = "ok"
    /\ task' = [task EXCEPT ![d] = CallOperation(t)]
    /\ UNCHANGED fleet_vars

\* The operation returned or raised, or the connection failed: disconnect,
\* and the caller goes on with what it is handed.
NetOpReturn(d) ==
    LET t == task[d] IN
    /\ t.pc = "op_done" /\ t.stage # "none"
    /\ ~(t.op = "connect_with_retry" /\ t.ret = "ok")
    /\ LET t1 == Continue([t EXCEPT !.conn = "none"], Delivered(t)) IN
         /\ task' = [task EXCEPT ![d] = Finally(d, t1)]
         /\ TaskEnds(t1)
    /\ UNCHANGED <<max_attempts, batch, registry, main>>

\* Device.__init__: battery_failing.lower() in ['true', '1', 'yes',
\* 'verdadero', 'si'], on parts[6] of the line.
Lower(s) == CASE s = "True"  -> "true"
              [] s = "False" -> "false"
              [] OTHER       -> s
Device_battery_failing(line) ==
    Lower(line.battery_failing) \in {"true", "1", "yes", "verdadero", "si"}

\* update_battery_status(p_ip): parts[6] of every line of that IP is set.
update_battery_status(lines, p_ip) ==
    [i \in 1..Len(lines) |->
        IF lines[i].ip = p_ip THEN [lines[i] EXCEPT !.battery_failing = "False"]
        ELSE lines[i]]

\* manage_individual_attendances and manage_global_attendances: the files
\* are written, or the writing raises; then update_device_time_single(info).
TaskSave(d) ==
    LET t == task[d] IN
    /\ t.pc = "t_save"
    /\ \E ok \in CallOutcomes(d) :
         LET t1 == IF ok THEN BeginNetOp(t, "update_time", "inner_time")
                   ELSE Finish([t EXCEPT !.fails = TRUE], "OSError", 0) IN
         /\ task' = [task EXCEPT ![d] = Finally(d, t1)]
         /\ TaskEnds(t1)
    /\ UNCHANGED <<max_attempts, batch, registry, main>>

\* "except BatteryFailingError as e: update_battery_status(e.ip)": what the
\* file operations raise there leaves the task.  update_battery_status takes
\* no lock; it reads and writes the file without a switch in between.
TaskBattery(d) ==
    LET t == task[d] IN
    /\ t.pc = "t_battery"
    /\ \E ok \in CallOutcomes(d) :
         LET t1 == IF ok THEN Finish(Rewrote(t, d, "battery", NoLock, NoLock),
                                        "returned", Len(t.attendances))
                   ELSE Finish([t EXCEPT !.fails = TRUE], "OSError", 0) IN
         /\ task' = [task EXCEPT ![d] = Finally(d, t1)]
         /\ registry' = IF ok THEN update_battery_status(registry, d) ELSE registry
         /\ TaskEnds(t1)
    /\ UNCHANGED <<max_attempts, batch, main>>

\* The function handed to manage_threads_to_devices runs on its device: it
\* returns or raises.
TaskBody(d) ==
    LET t == task[d] IN
    /\ t.pc = "t_body"
    /\ \E ok \in CallOutcomes(d) :
         task' = [task EXCEPT ![d] =
                    IF ok THEN Finish(t, "returned", 0)
                    ELSE Finish([t EXCEPT !.fails = TRUE], "Exception", 0)]
    /\ UNCHANGED fleet_vars

\* ---------------------------------------------------------------------
\* The fleet operations: manage_device_attendances,
\* get_device_attendance_count, update_devices_time,
\* OperationManager.manage_threads_to_devices
\* ---------------------------------------------------------------------

\* eval(info["active"])
Active(info) == info.active = "True"

\* Faulty variant of the selection: every operation asks for the active flag.
MutSelectActiveOnly(device_info) ==
    LET ActiveAndSelected(info) ==
            Active(info) /\ (batch.selected_ips = {} \/ info.ip \in batch.selected_ips)
    IN  SelectSeq(device_info, ActiveAndSelected)
\* The devices a fleet operation will spawn a task for.
SelectedDevices(device_info) ==
    LET ActiveOrService(info) == Active(info) \/ batch.from_service
        InSelectedIps(info) == info.ip \in batch.selected_ips
    IN  CASE batch.op = "attendances" -> SelectSeq(device_info, ActiveOrService)
          [] batch.op = "count"       -> SelectSeq(device_info, Active)
          [] batch.op = "time"        ->
                IF batch.selected_ips # {} THEN SelectSeq(device_info, InSelectedIps)
                ELSE IF batch.from_service THEN device_info ELSE <<>>
          [] OTHER                    -> SelectSeq(device_info, InSelectedIps)

\* set_total_devices, on the SharedState the operation creates
\* (attendances, time) or is given (manage_threads_to_devices).
set_total_devices(st, total) ==
    CASE batch.op \in {"attendances", "time"} -> [total_devices |-> total, processed_devices |-> 0]
      [] batch.op = "threads"                 -> [st EXCEPT !.total_devices = total]
      [] OTHER                                -> st

\* The main green thread moves past the loops that have nothing left to do.
Advance(m) ==
    LET m1 == IF m.pc = "spawn" /\ m.i > Len(m.active_devices)
              THEN [m EXCEPT !.pc = IF batch.op = "threads" THEN "waitall" ELSE "wait", !.i = 1]
              ELSE m
        m2 == IF m1.pc = "wait" /\ m1.i > Min(Len(m1.active_devices), Len(m1.gt))
              THEN [m1 EXCEPT !.pc = "battery", !.i = 1]
              ELSE m1
    IN  IF m2.pc = "battery" /\ m2.i > Len(m2.battery)
        THEN [m2 EXCEPT !.pc = "done"]
        ELSE m2

\* The operation is called: the registry is read and the devices chosen.
\* A registry that cannot be read is an empty device list, and for
\* manage_threads_to_devices a BaseError(3001).  With an empty device list
\* the attendance operations return their empty results; update_devices_time
\* has its "return device_error" inside "if device_info:" and returns None.
BatchStart ==
    /\ main.pc = "start"
    /\ \E ok \in BOOLEAN :
         LET device_info == IF ok THEN registry ELSE <<>>
             active_devices == SelectedDevices(device_info)
         IN  IF ~ok /\ batch.op = "threads"
             THEN /\ main' = [main EXCEPT !.pc = "done", !.raised = "BaseError3001"]
                  /\ UNCHANGED state
             ELSE IF device_info = <<>>
             THEN /\ main' = [main EXCEPT !.pc = "done", !.no_value = (batch.op = "time")]
                  /\ UNCHANGED state
             ELSE /\ main' = Advance([main EXCEPT !.pc = "spawn", !.i = 1,
                                                  !.device_info = device_info,
                                                  !.active_devices = active_devices])
                  /\ state' = set_total_devices(state, Len(active_devices))
    /\ UNCHANGED <<task, max_attempts, batch, registry>>

\* Green threads of the pool that have not finished.
Running == Cardinality({d \in Devices : task[d].pc \notin {"idle", "t_done"}})

\* Faulty variant of the pool: spawn never waits.
MutSpawnUnbounded == TRUE
\* GreenPool.spawn takes a slot of the pool before it starts the green
\* thread, and waits while none is free.
HasFreeSlot == Running < batch.pool_size

\* One iteration of the spawning loop: pool.spawn waits for a free slot;
\* when it raises, the handler passes and gt gets nothing.
Spawn ==
    /\ main.pc = "spawn"
    /\ HasFreeSlot
    /\ LET d == main.active_devices[main.i].ip IN
       \E raises \in (IF batch.spawn_faults THEN BOOLEAN ELSE {FALSE}) :
         /\ main' = Advance([main EXCEPT !.i = @ + 1,
                                         !.gt = IF raises THEN @ ELSE Append(@, d)])
         /\ task' = IF raises THEN task
                    ELSE [task EXCEPT ![d] = [IdleTask EXCEPT !.pc = "t_start"]]
    /\ UNCHANGED <<max_attempts, batch, registry, state>>

\* Faulty variant of the wait: it comes back once the green thread runs.
MutFinishedOnceStarted(g) == task[g].pc # "t_start"
\* g.wait() and pool.waitall() come back once the green thread has finished.
Finished(g) == task[g].pc = "t_done"

\* What stands in results for a task that raised.
ErrorMarker == <<"Conexion fallida">>

\* Faulty variant of the entry: the rank at which the task completed.
MutEntryByCompletion(t) == Str(t.incr)
\* The result of a device in the result map: str(attendance_count) for the
\* attendance operations (point, district_name and id are those of the same
\* active_device as the key), the two flags for update_devices_time.
ResultEntry(t) ==
    IF batch.op = "time"
    THEN [connection_failed |-> t.tret = "NetworkError",
          battery_failing   |-> t.tret = "BatteryFailingError"]
    ELSE IF t.tret = "returned" THEN Str(t.tval) ELSE ErrorMarker

\* results[ip] = entry
Put(results, ip, entry) ==
    [x \in (DOMAIN results) \cup {ip} |-> IF x = ip THEN entry ELSE results[x]]

\* One iteration of "for active_device, g in zip(active_devices, gt)":
\* g.wait() switches to the other green threads until g has finished; what
\* it returns or raises is recorded under the IP of active_device.
Wait ==
    /\ main.pc = "wait"
    /\ LET active_device == main.active_devices[main.i]
           g == main.gt[main.i]
       IN  /\ Finished(g)
           /\ main' = Advance([main EXCEPT
                  !.i = @ + 1,
                  !.results = Put(@, active_device.ip, ResultEntry(task[g])),
                  !.battery = IF batch.op = "time" /\ task[g].tret = "BatteryFailingError"
                              THEN Append(@, g) ELSE @])
    /\ UNCHANGED <<task, max_attempts, batch, registry, state>>

\* update_devices_time: update_battery_status for the next IP of
\* device_with_battery_failing.  When the file operations raise, the handler
\* reads e.ip of an exception that has none and the operation raises.
BatteryUpdate ==
    /\ main.pc = "battery"
    /\ \E ok \in BOOLEAN :
         IF ok
         THEN /\ registry' = update_battery_status(registry, main.battery[main.i])
              /\ main' = Advance([main EXCEPT !.i = @ + 1])
         ELSE /\ registry' = registry
              /\ main' = [main EXCEPT !.pc = "done", !.raised = "AttributeError"]
    /\ UNCHANGED <<task, max_attempts, batch, state>>

\* pool.waitall(): returns when no green thread of the pool is running.
WaitAll ==
    /\ main.pc = "waitall"
    /\ \A j \in 1..Len(main.gt) : Finished(main.gt[j])
    /\ main' = [main EXCEPT !.pc = "done"]
    /\ UNCHANGED <<task, max_attempts, batch, registry, state>>

\* ---------------------------------------------------------------------
\* Initial states
\* ---------------------------------------------------------------------

\* A line of info_devices.txt, by the fields the operations read or write.
Line(ip, active) ==
    [district_name |-> "D", model_name |-> <<"M", "1">>, point |-> "P", ip |-> ip,
     id |-> "1", communication |-> "TCP", battery_failing |-> "True", active |-> active]

AllActive == <<Line("A", "True"), Line("B", "True"), Line("C", "True")>>
OneInactive == <<Line("A", "True"), Line("B", "False")>>
NoneActive == <<Line("A", "False"), Line("B", "False")>>
BothActive == <<Line("A", "True"), Line("B", "True")>>

AnyPlan == [d \in Devices |-> "any"]
EndToEndPlan == [d \in Devices |->
    CASE d = "A" -> "ok" [] d = "B" -> "mismatch_once" [] OTHER -> "unreachable"]
DriftPlan == [d \in Devices |-> "drift"]

NoBatch ==
    [op |-> "none", from_service |-> FALSE, selected_ips |-> {}, pool_size |-> 1,
     plan |-> AnyPlan, spawn_faults |-> FALSE, emit_progress |-> "none"]
NoMain ==
    [pc |-> "idle", i |-> 1, device_info |-> <<>>, active_devices |-> <<>>, gt |-> <<>>,
     results |-> <<>>, battery |-> <<>>, raised |-> "none", no_value |-> FALSE]
NoState == [total_devices |-> 0, processed_devices |-> 0]

\* The calls of the fleet operations that are explored.  emit_progress is
\* "none" when no callback is supplied, else what the callback does when it
\* is called: it "returns" or it "raises".
Scenario(op, from_service, selected_ips, pool_size, lines, plan, spawn_faults, emit_progress) ==
    [op |-> op, from_service |-> from_service, selected_ips |-> selected_ips,
     pool_size |-> pool_size, registry |-> lines, plan |-> plan,
     spawn_faults |-> spawn_faults, emit_progress |-> emit_progress]

Scenarios ==
    {Scenario("attendances", FALSE, {}, 2, AllActive, EndToEndPlan, FALSE, "returns"),
     Scenario("attendances", TRUE, {}, 1, OneInactive, AnyPlan, TRUE, "raises"),
     Scenario("attendances", FALSE, {}, 1, OneInactive, AnyPlan, TRUE, "none"),
     Scenario("attendances", FALSE, {}, 1, <<>>, AnyPlan, TRUE, "returns"),
     Scenario("attendances", FALSE, {}, 1, NoneActive, AnyPlan, TRUE, "returns"),
     Scenario("count", FALSE, {}, 1, NoneActive, AnyPlan, TRUE, "none"),
     Scenario("attendances", FALSE, {}, 2, BothActive, DriftPlan, FALSE, "returns"),
     Scenario("count", FALSE, {}, 2, AllActive, AnyPlan, TRUE, "returns"),
     Scenario("count", FALSE, {}, 2, OneInactive, AnyPlan, TRUE, "none"),
     Scenario("time", FALSE, {"A", "B"}, 2, OneInactive, AnyPlan, TRUE, "raises"),
     Scenario("time", TRUE, {}, 2, OneInactive, AnyPlan, TRUE, "returns"),
     Scenario("time", FALSE, {}, 2, OneInactive, AnyPlan, TRUE, "none"),
     Scenario("threads", FALSE, {"A", "B"}, 2, OneInactive, AnyPlan, TRUE, "none"),
     Scenario("threads", FALSE, {"B", "C"}, 1, AllActive, AnyPlan, TRUE, "none")}

\* ---------------------------------------------------------------------
\* SpecConn: one ConnectionManager, its methods called one after another
\* ---------------------------------------------------------------------

InitConn ==
    /\ task = [d \in Devices |-> IdleTask]
    /\ max_attempts \in 1..ConnMaxAttempts
    /\ batch = NoBatch
    /\ registry = <<Line(ConnDev, "True")>>
    /\ main = NoMain
    /\ state = NoState

NextConn ==
    \/ CallConnectWithRetry(ConnDev)
    \/ ConnectAttempt(ConnDev)
    \/ ConnectWake(ConnDev)
    \/ CallGetAttendances(ConnDev)
    \/ CallUpdateTime(ConnDev)
    \/ WrapperAttempt(ConnDev)
    \/ WrapperExec(ConnDev)
    \/ WrapperWake(ConnDev)
    \/ GAWake(ConnDev)

SpecConn == InitConn /\ [][NextConn]_vars

\* SpecReads: the same manager with the get_attendance transport calls of
\* the running get_attendances call counted (reads_made).
InitReads ==
    /\ task = [d \in Devices |-> [IdleTask EXCEPT !.traced = TRUE]]
    /\ max_attempts \in 1..ReadsMaxAttempts
    /\ batch = NoBatch
    /\ registry = <<Line(ConnDev, "True")>>
    /\ main = NoMain
    /\ state = NoState

SpecReads == InitReads /\ [][NextConn]_vars

\* ---------------------------------------------------------------------
\* SpecTracker: one SharedState, its methods called one after another
\* ---------------------------------------------------------------------

\* SharedState.set_total_devices
SharedState_set_total_devices(st, total) == [st EXCEPT !.total_devices = total]

\* SharedState.__init__
InitTracker ==
    /\ task = [d \in Devices |-> IdleTask]
    /\ max_attempts = 1
    /\ batch = NoBatch
    /\ registry = <<>>
    /\ main = NoMain
    /\ state = NoState

\* The body of each SharedState method: the counters it reads, the counters
\* it writes, and whether it runs inside "with self.lock".
SharedStateMethods ==
    [increment_processed_devices |->
        [reads |-> {"processed_devices"}, writes |-> {"processed_devices"}, with_lock |-> TRUE],
     calculate_progress |->
        [reads |-> {"total_devices", "processed_devices"}, writes |-> {}, with_lock |-> TRUE],
     set_total_devices |->
        [reads |-> {}, writes |-> {"total_devices"}, with_lock |-> TRUE],
     get_total_devices |->
        [reads |-> {"total_devices"}, writes |-> {}, with_lock |-> FALSE],
     reset |->
        [reads |-> {}, writes |-> {"processed_devices"}, with_lock |-> FALSE]]

\* The caller of the SharedState makes a call of the method.
Calls(method) == main' = [NoMain EXCEPT !.pc = method]

CallSetTotalDevices ==
    /\ \E total \in 0..MaxTotal : state' = SharedState_set_total_devices(state, total)
    /\ Calls("set_total_devices")
    /\ UNCHANGED <<task, max_attempts, batch, registry>>

CallIncrementProcessedDevices ==
    /\ state.processed_devices < MaxTotal
    /\ state' = increment_processed_devices(state)
    /\ Calls("increment_processed_devices")
    /\ UNCHANGED <<task, max_attempts, batch, registry>>

CallReset ==
    /\ state' = reset(state)
    /\ Calls("reset")
    /\ UNCHANGED <<task, max_attempts, batch, registry>>

\* The two methods that return a value leave the counters as they are.
CallCalculateProgress ==
    /\ calculate_progress(state) \in Nat
    /\ Calls("calculate_progress")
    /\ UNCHANGED <<task, max_attempts, batch, registry, state>>

CallGetTotalDevices ==
    /\ get_total_devices(state) \in Nat
    /\ Calls("get_total_devices")
    /\ UNCHANGED <<task, max_attempts, batch, registry, state>>

NextTracker ==
    \/ CallSetTotalDevices
    \/ CallIncrementProcessedDevices
    \/ CallReset
    \/ CallCalculateProgress
    \/ CallGetTotalDevices

SpecTracker == InitTracker /\ [][NextTracker]_vars

\* ---------------------------------------------------------------------
\* SpecReuse: one OperationManager, its manage_threads_to_devices called
\* again and again on the SharedState it was constructed with
\* ---------------------------------------------------------------------

\* What the caller hands in as "function": it reports to the tracker by one
\* increment_processed_devices() per device, or it leaves the tracker alone.
Functions == {"increments", "silent"}

\* The caller between two calls.  last is the tracker method called last,
\* found and base what the running call found (the method called last, the
\* processed count), reused whether a call has returned before.
ReuseIdle(last, reused) ==
    [pc |-> "idle", function |-> "silent", todo |-> {}, pending |-> {}, base |-> 0,
     found |-> "none", last |-> last, reused |-> reused]

\* OperationManager.__init__ on a new SharedState.
InitReuse ==
    /\ task = [d \in Devices |-> IdleTask]
    /\ max_attempts = 1
    /\ batch = NoBatch
    /\ registry = AllActive
    /\ main = ReuseIdle("__init__", FALSE)
    /\ state = NoState

\* The caller resets the tracker between two calls.
ReuseReset ==
    /\ main.pc = "idle" /\ main.last # "reset"
    /\ state' = reset(state)
    /\ main' = ReuseIdle("reset", main.reused)
    /\ UNCHANGED <<task, max_attempts, batch, registry>>

\* manage_threads_to_devices(selected_ips, function) up to the creation of
\* the pool: the devices are selected and the total is set.  The processed
\* count is left as the call finds it.
ReuseBegin ==
    /\ main.pc = "idle"
    /\ \E selected_ips \in SUBSET Devices, function \in Functions :
         LET selected_devices == {registry[i].ip : i \in {j \in 1..Len(registry) :
                                                            registry[j].ip \in selected_ips}} IN
         /\ state' = SharedState_set_total_devices(state, Cardinality(selected_devices))
         /\ main' = [pc |-> "spawn", function |-> function, todo |-> selected_devices,
                      pending |-> {}, base |-> state.processed_devices,
                      found |-> main.last, last |-> "set_total_devices",
                      reused |-> main.reused]
    /\ UNCHANGED <<task, max_attempts, batch, registry>>

\* pool.spawn(function, selected_device): the green thread is created, or
\* the spawn raises and is passed over.
ReuseSpawn ==
    /\ main.pc = "spawn"
    /\ \E d \in main.todo, ok \in BOOLEAN :
         main' = [main EXCEPT !.todo = @ \ {d},
                              !.pending = IF ok THEN @ \cup {d} ELSE @]
    /\ UNCHANGED <<task, max_attempts, batch, registry, state>>

\* A green thread runs function(selected_device).
ReuseTask ==
    /\ main.pc = "spawn"
    /\ state.processed_devices < MaxTotal
    /\ \E d \in main.pending :
         /\ main' = [main EXCEPT !.pending = @ \ {d},
                                  !.last = IF main.function = "increments"
                                           THEN "increment_processed_devices" ELSE @]
         /\ state' = IF main.function = "increments"
                      THEN increment_processed_devices(state) ELSE state
    /\ UNCHANGED <<task, max_attempts, batch, registry>>

\* pool.waitall() returns: every green thread has finished.
ReuseWaitAll ==
    /\ main.pc = "spawn" /\ main.todo = {} /\ main.pending = {}
    /\ main' = ReuseIdle(main.last, TRUE)
    /\ UNCHANGED <<task, max_attempts, batch, registry, state>>

NextReuse ==
    \/ ReuseReset
    \/ ReuseBegin
    \/ ReuseSpawn
    \/ ReuseTask
    \/ ReuseWaitAll

SpecReuse == InitReuse /\ [][NextReuse]_vars

\* ---------------------------------------------------------------------
\* SpecProgress: the "finally" blocks of the tasks of one batch, on the
\* SharedState of the batch, for batches of up to MaxTotal devices
\* ---------------------------------------------------------------------

\* The batch has set the total and dispatched its tasks; a callback was
\* supplied.
InitProgress ==
    /\ task = [d \in Devices |-> IdleTask]
    /\ max_attempts = 1
    /\ \E emit_progress \in {"returns", "raises"} :
         batch = [NoBatch EXCEPT !.op = "attendances", !.emit_progress = emit_progress]
    /\ registry = <<>>
    /\ main = NoMain
    /\ \E total \in 1..MaxTotal : state = SharedState_set_total_devices(NoState, total)

\* The body of one more task is over and its "finally" block runs: the
\* increment, calculate_progress and the callback, with no switch to another
\* green thread in between.  d stands for the device of the task; the frames
\* of the tasks before it are gone.
ProgressTask(d) ==
    LET t1 == Finish(IdleTask, "returned", 0) IN
    /\ state.processed_devices < state.total_devices
    /\ task' = [x \in Devices |-> IF x = d THEN Finally(d, t1) ELSE IdleTask]
    /\ TaskEnds(t1)
    /\ UNCHANGED <<max_attempts, batch, registry, main>>

NextProgress == \E d \in Devices : ProgressTask(d)

SpecProgress == InitProgress /\ [][NextProgress]_vars

\* ---------------------------------------------------------------------
\* SpecFormat: format_attendances and the Attendance methods, called on
\* punch lists
\* ---------------------------------------------------------------------

\* Successive values of datetime.now() during a call: the last second of
\* 10:59 on 31 May 2024 and the second after it.
ClockReadings == <<DateTime(2024, 5, 31, 10, 59, 59), DateTime(2024, 5, 31, 11, 0, 0)>>

\* Timestamps of punches: at and just after the readings, around three
\* months before them (29 February, 31 May less three months), and two
\* ordinary ones.
PunchTimes ==
    {ClockReadings[1], ClockReadings[2], DateTime(2024, 5, 31, 11, 0, 1),
     DateTime(2024, 2, 29, 10, 59, 59), DateTime(2024, 2, 29, 11, 0, 0),
     DateTime(2024, 2, 29, 11, 0, 1), DateTime(2024, 2, 28, 23, 0, 0),
     DateTime(2024, 5, 30, 9, 0, 30)}

\* Status codes of raw punches: those with a label and one without.
RawStatuses == MappedCodes \cup {3}

\* Raw punches: every status on an ordinary timestamp, every timestamp on
\* status 1.
FormatPunches ==
    {[user_id |-> 7, timestamp |-> AsDateTime(DateTime(2024, 5, 30, 9, 0, 30)), status |-> c] :
        c \in RawStatuses}
    \cup {[user_id |-> 7, timestamp |-> AsDateTime(t), status |-> 1] : t \in PunchTimes}

\* The clock readings of a call with n iterations: a pair per iteration,
\* as indices into ClockReadings; the clock does not go back.
ReadingsOf(n) ==
    {r \in [1..n -> (1..Len(ClockReadings)) \X (1..Len(ClockReadings))] :
        /\ \A i \in 1..n : r[i][1] <= r[i][2]
        /\ \A i \in 1..(n - 1) : r[i][2] <= r[i + 1][1]}
ReadingAt(r, i) == <<ClockReadings[r[i][1]], ClockReadings[r[i][2]]>>

\* Nothing has been called: attendances holds raw punches, or the
\* Attendance objects get_attendances makes of them.
InitFormat ==
    /\ task = [d \in Devices |-> IdleTask]
    /\ max_attempts = 1
    /\ batch = [NoBatch EXCEPT !.op = "format"]
    /\ registry = <<>>
    /\ state = NoState
    /\ \E punches \in SeqsUpTo(FormatPunches, MaxFormat), objects \in BOOLEAN :
         main = [pc |-> "f_ready",
                 objects |-> objects,
                 attendances |-> IF objects THEN ParseAttendances(punches) ELSE punches,
                 id |-> "1",
                 readings |-> <<>>,
                 formatted_attendances |-> <<>>,
                 warnings |-> <<>>,
                 methods |-> <<>>,
                 raised |-> "none"]

\* format_attendances(attendances, id)
CallFormatAttendances ==
    /\ main.pc = "f_ready"
    /\ IF FormatRaises(main.attendances)
       THEN main' = [main EXCEPT !.pc = "f_done", !.raised = "AttributeError"]
       ELSE \E r \in ReadingsOf(Len(main.attendances)) :
              LET readings == [i \in 1..Len(main.attendances) |-> ReadingAt(r, i)]
                  out == FormatLoop(main.attendances, main.id, readings, 1,
                                    [formatted_attendances |-> <<>>, warnings |-> <<>>])
              IN  main' = [main EXCEPT !.pc = "f_done",
                                       !.readings = readings,
                                       !.formatted_attendances = out.formatted_attendances,
                                       !.warnings = out.warnings]
    /\ UNCHANGED <<task, max_attempts, batch, registry, state>>

\* format_attendance(), is_three_months_old() and is_in_the_future() of each
\* Attendance object of the list.
CallAttendanceMethods ==
    /\ main.pc = "f_ready"
    /\ main.objects
    /\ \E r \in ReadingsOf(Len(main.attendances)) :
         LET readings == [i \in 1..Len(main.attendances) |-> ReadingAt(r, i)] IN
         main' = [main EXCEPT
                     !.pc = "m_done",
                     !.readings = readings,
                     !.methods = [i \in 1..Len(main.attendances) |->
                         [formatted |-> Attendance_format_attendance(main.attendances[i]),
                          is_three_months_old |->
                              Attendance_is_three_months_old(main.attendances[i], readings[i][1]),
                          is_in_the_future |->
                              Attendance_is_in_the_future(main.attendances[i], readings[i][2])]]]
    /\ UNCHANGED <<task, max_attempts, batch, registry, state>>

NextFormat ==
    \/ CallFormatAttendances
    \/ CallAttendanceMethods

SpecFormat == InitFormat /\ [][NextFormat]_vars

\* ---------------------------------------------------------------------
\* SpecDevices: get_devices_info on the lines of info_devices.txt
\* ---------------------------------------------------------------------

\* Most lines of info_devices.txt in a registry that is explored.
MaxLines == 2

\* ['TCP', 'UDP', 'RS232', 'RS485']
CommunicationModes == {"TCP", "UDP", "RS232", "RS485"}

\* Faulty variant of the test of the mode: every mode passes.
MutAnyCommunication(communication) == TRUE
\* Device.__init__: "communication not in ['TCP', 'UDP', 'RS232', 'RS485']"
\* raises ValueError.
ValidCommunication(communication) == communication \in CommunicationModes

\* int(id) of the ids explored: it raises ValueError for "x".
IntOfId(id) == CASE id = "1" -> 1 [] id = "12" -> 12 [] OTHER -> -1

\* Device(district_name=parts[0], ..., active=parts[7]): the Device, or the
\* ValueError that int(id) or the test of the mode raises.
Device(parts) ==
    IF IntOfId(parts[5]) < 0 \/ ~ValidCommunication(parts[6])
    THEN [type |-> "ValueError"]
    ELSE [type |-> "Device", district_name |-> parts[1], model_name |-> parts[2],
          point |-> parts[3], ip |-> parts[4], id |-> IntOfId(parts[5]),
          communication |-> parts[6],
          battery_failing |-> Lower(parts[7]) \in {"true", "1", "yes", "verdadero", "si"},
          active |-> Lower(parts[8]) \in {"true", "1", "yes", "verdadero", "si"}]

\* organize_devices_info(line), on the parts of line.strip().split(" - ")
organize_devices_info(parts) ==
    IF Len(parts) # 8 THEN [type |-> "None"] ELSE Device(parts)

\* Lines of info_devices.txt, as their parts: eight fields with each mode
\* and with modes that are none of the four, with an id that is no number,
\* with seven and with nine fields, and a blank line.
RegistryLine(id, communication) ==
    <<"D", "M", "P", "A", id, communication, "False", "True">>
RegistryLines ==
    {RegistryLine("1", c) : c \in CommunicationModes \cup {"USB", "tcp", ""}}
        \cup {RegistryLine("x", "TCP"),
              SubSeq(RegistryLine("12", "UDP"), 1, 7),
              Append(RegistryLine("12", "UDP"), "True"),
              <<"">>}

\* get_devices_info() is called on a file of up to MaxLines lines.
InitDevices ==
    /\ task = [d \in Devices |-> IdleTask]
    /\ max_attempts = 1
    /\ batch = [NoBatch EXCEPT !.op = "devices"]
    /\ registry \in SeqsUpTo(RegistryLines, MaxLines)
    /\ state = NoState
    /\ main = [pc |-> "comprehension", i |-> 1, devices |-> <<>>, raised |-> "none"]

\* One line of the list comprehension of get_devices_info: the Device is
\* kept, None is left out, and what Device() raises ends the call as
\* BaseError(3001) with no list returned; after the last line the list is
\* returned.
GetDevicesInfoStep ==
    /\ main.pc = "comprehension"
    /\ main' =
          IF main.i > Len(registry) THEN [main EXCEPT !.pc = "returned"]
          ELSE LET device == organize_devices_info(registry[main.i]) IN
               CASE device.type = "Device" ->
                        [main EXCEPT !.i = @ + 1, !.devices = Append(@, device)]
                 [] device.type = "None" -> [main EXCEPT !.i = @ + 1]
                 [] OTHER -> [main EXCEPT !.pc = "raised", !.devices = <<>>,
                                          !.raised = "BaseError3001"]
    /\ UNCHANGED <<task, max_attempts, batch, registry, state>>

NextDevices == GetDevicesInfoStep

SpecDevices == InitDevices /\ [][NextDevices]_vars

\* ---------------------------------------------------------------------
\* Spec: a fleet operation is called once and runs to its return
\* ---------------------------------------------------------------------

\* One of the given calls is made.
InitFrom(scenarios) ==
    /\ task = [d \in Devices |-> IdleTask]
    /\ max_attempts = FleetAttempts
    /\ \E sc \in scenarios :
         /\ batch = [op |-> sc.op, from_service |-> sc.from_service,
                     selected_ips |-> sc.selected_ips, pool_size |-> sc.pool_size,
                     plan |-> sc.plan, spawn_faults |-> sc.spawn_faults,
                     emit_progress |-> sc.emit_progress]
         /\ registry = sc.registry
    /\ main = [NoMain EXCEPT !.pc = "start"]
    /\ state = NoState

Init == InitFrom(Scenarios)

DeviceStep(d) ==
    \/ TaskStart(d)
    \/ ConnectAttempt(d)
    \/ ConnectWake(d)
    \/ NetOpCall(d)
    \/ WrapperAttempt(d)
    \/ WrapperExec(d)
    \/ WrapperWake(d)
    \/ GAWake(d)
    \/ UpdateNameWrite(d)
    \/ NetOpReturn(d)
    \/ TaskSave(d)
    \/ TaskBattery(d)
    \/ TaskBody(d)

Next ==
    \/ BatchStart
    \/ Spawn
    \/ Wait
    \/ BatteryUpdate
    \/ WaitAll
    \/ \E d \in Devices : DeviceStep(d)

Spec == Init /\ [][Next]_vars

\* ---------------------------------------------------------------------
\* SpecFair: fleet runs on a pool smaller than the fleet, under the
\* scheduling of the hub
\* ---------------------------------------------------------------------

MixedPlan == [d \in Devices |-> IF d = "A" THEN "any" ELSE "ok"]

\* Calls whose pool has fewer slots than there are devices to run.
FairScenarios ==
    {Scenario("attendances", FALSE, {}, 2, AllActive, EndToEndPlan, FALSE, "none"),
     Scenario("attendances", FALSE, {}, 1, BothActive, DriftPlan, TRUE, "none"),
     Scenario("time", FALSE, {"A", "B"}, 1, BothActive, DriftPlan, TRUE, "none"),
     Scenario("count", FALSE, {}, 1, BothActive, MixedPlan, FALSE, "none"),
     Scenario("threads", FALSE, {"B", "C"}, 1, AllActive, AnyPlan, TRUE, "none")}

InitFair == InitFrom(FairScenarios)

\* The hub runs a green thread whenever one can run.
SpecFair == InitFair /\ [][Next]_vars /\ WF_vars(Next)

\* ---------------------------------------------------------------------
\* Properties
\* ---------------------------------------------------------------------

\* The IPs of a list of device records.
Ips(devices) == {devices[i].ip : i \in 1..Len(devices)}

\* The fleet operation has returned (or raised) to its caller.
Returned == main.pc = "done"

\* A result entry that carries a count.
IsNumeric(entry) ==
    /\ Len(entry) > 0
    /\ \A i \in 1..Len(entry) : \E k \in 1..Len(DecimalDigits) : entry[i] = DecimalDigits[k]

\* What the task of device d came to, as a result entry.
OwnOutcome(d) == IF task[d].tret = "returned" THEN Str(task[d].tval) ELSE ErrorMarker

\* What the task of device d came to, as the entry of the operation.
OutcomeEntry(d) ==
    IF batch.op = "time"
    THEN [connection_failed |-> task[d].tret = "NetworkError",
          battery_failing   |-> task[d].tret = "BatteryFailingError"]
    ELSE OwnOutcome(d)

AttendanceOps == {"attendances", "count"}

\* C1: when manage_device_attendances or get_device_attendance_count has
\* returned, the result map has an entry for every device selected for the
\* batch and for no other device.
C1_ResultMapCoversSelected ==
    (Returned /\ batch.op \in AttendanceOps)
        => DOMAIN main.results = Ips(main.active_devices)

\* C2: the batch returns without raising, the entry of a device whose task
\* raised is the error marker, and every entry is what the task of its own
\* device produced.
C2_FailureStaysWithItsDevice ==
    (Returned /\ batch.op \in AttendanceOps)
        => /\ main.raised = "none"
           /\ \A d \in Devices :
                (task[d].pc = "t_done" /\ task[d].tret # "returned")
                    => (d \in DOMAIN main.results /\ main.results[d] = ErrorMarker)
           /\ \A d \in DOMAIN main.results :
                task[d].pc = "t_done" /\ main.results[d] = OwnOutcome(d)

\* C3: a numeric count in the entry of a device is the record count that
\* device reported at the read get_attendances accepted.
C3_CountIsDeviceRecordCount ==
    (Returned /\ batch.op = "attendances")
        => \A d \in DOMAIN main.results :
              IsNumeric(main.results[d])
                  => (task[d].accepted /\ main.results[d] = Str(task[d].records))

\* The ConnectionManager of SpecConn.
cm == task[ConnDev]

\* get_attendances has returned a punch list.
ReturnedList == cm.op = "get_attendances" /\ cm.pc = "op_done" /\ cm.ret = "ok"

\* The read of the current round disagreed with the record count.
MismatchedRound ==
    /\ cm.op = "get_attendances" /\ cm.pc \in {"ga_sleep", "op_done"}
    /\ cm.reads = 1 /\ cm.records # Len(cm.attendances)

C5_RetryExhaustion ==
    /\ cm.tries <= max_attempts
    /\ cm.nerr <= 1
    /\ cm.pc \in {"cwr_sleep", "w_sleep"}
          => (cm.attempt < max_attempts - 1 /\ cm.sleeps = cm.tries /\ cm.nerr = 0)
    /\ (cm.pc = "op_done" /\ cm.op = "connect_with_retry" /\ cm.ret # "ok")
          => /\ cm.ret = "NetworkError"
             /\ cm.tries = max_attempts /\ cm.sleeps = max_attempts - 1 /\ cm.nerr = 1
    /\ (cm.pc = "op_done" /\ cm.cause = "NetworkError")
          => (cm.tries = max_attempts /\ cm.sleeps = max_attempts - 1 /\ cm.nerr = 1)

C5_Witness ==
    /\ max_attempts = 3
    /\ cm.pc = "op_done" /\ cm.op = "connect_with_retry" /\ cm.ret = "NetworkError"
    /\ cm.tries = 3 /\ cm.sleeps = 2

\* C6 (as stated): for every k < max_attempts a mismatch on attempt k is
\* followed by one further attempt after a backoff of at least 2^k seconds.
C6_RetryAfterEveryMismatch ==
    MismatchedRound => (cm.pc = "ga_sleep" /\ cm.wait >= 2 ^ cm.oattempt)

\* C6 (amended): for every k < max_attempts - 1 a mismatch on attempt k is
\* followed by exactly one further attempt after a backoff of at least
\* min(2^k, 30) seconds; a mismatch on attempt max_attempts - 1 is followed
\* by no attempt and ends in the obtain-attendances error.
C6_RetryAfterEarlierMismatch ==
    /\ (cm.op = "get_attendances" /\ cm.rounds > 0) => cm.rounds = cm.oattempt + 1
    /\ (MismatchedRound /\ cm.oattempt < max_attempts - 1)
          => (cm.pc = "ga_sleep" /\ cm.wait >= Min(2 ^ cm.oattempt, MaxWait))
    /\ (MismatchedRound /\ cm.oattempt >= max_attempts - 1)
          => (cm.pc = "op_done" /\ cm.ret = "ObtainAttendancesError")

C6_Witness == MismatchedRound /\ cm.pc = "ga_sleep" /\ cm.oattempt = 5 /\ cm.wait = MaxWait

C8_EndToEnd ==
    (Returned /\ batch.op = "attendances" /\ batch.plan = EndToEndPlan
              /\ Len(main.device_info) = 3)
        => /\ main.raised = "none"
           /\ DOMAIN main.results = {"A", "B", "C"}
           /\ task["A"].accepted /\ main.results["A"] = Str(task["A"].records)
           /\ task["B"].accepted /\ main.results["B"] = Str(task["B"].records)
           /\ task["B"].rounds = 2 /\ task["B"].mism = 1 /\ task["B"].mwait >= 1
           /\ main.results["C"] = ErrorMarker

\* C9: a fleet operation returns only when every task it spawned has
\* finished: none is still running when it returns.
C9_JoinBarrier ==
    Returned => \A d \in Devices : task[d].pc \in {"idle", "t_done"}

C9_Witness ==
    /\ Returned /\ batch.op = "count" /\ Len(main.gt) = 3
    /\ \A d \in Devices : task[d].pc = "t_done"

\* The selected set of a run: the IPs handed to the operation, every IP when
\* the operation is handed none.
InSelectedSet(ip) ==
    IF batch.op = "threads" \/ (batch.op = "time" /\ batch.selected_ips # {})
    THEN ip \in batch.selected_ips
    ELSE TRUE

\* The scheduler has chosen the devices it spawns tasks for.
Chosen == main.pc \in {"spawn", "wait", "waitall", "battery"}

DispatchSet ==
    LET all == {main.device_info[i] : i \in 1..Len(main.device_info)} IN
    CASE batch.op = "threads"     -> {x \in all : x.ip \in batch.selected_ips}
      [] batch.op = "time"        ->
            IF batch.selected_ips # {} THEN {x \in all : x.ip \in batch.selected_ips}
            ELSE IF batch.from_service THEN all ELSE {}
      [] batch.op = "attendances" -> {x \in all : Active(x) \/ batch.from_service}
      [] OTHER                    -> {x \in all : Active(x)}

LineFields ==
    {"district_name", "model_name", "point", "ip", "id", "communication",
     "battery_failing", "active"}

WellFormedLine(l) ==
    /\ DOMAIN l = LineFields
    /\ l.ip \in Devices
    /\ l.battery_failing \in {"True", "False"} /\ l.active \in {"True", "False"}
    /\ \A i \in 1..Len(l.model_name) : l.model_name[i] \notin {" ", "\n"}

\* Line i of the file differs from the line read at the start of the batch
\* in the given fields at most.
SameBut(i, fields) ==
    \A f \in LineFields \ fields : registry[i][f] = main.device_info[i][f]

C12_RewritesUnderOneSharedLock ==
    \A d1 \in Devices, d2 \in Devices :
       \A r1 \in task[d1].rmw, r2 \in task[d2].rmw :
          /\ r1.read_lock # NoLock
          /\ r1.read_lock = r1.write_lock
          /\ r1.write_lock = r2.write_lock

\* The operations whose tasks are given the SharedState.
TrackedOps == {"attendances", "time"}

\* The devices a green thread was spawned for, and those whose task is over.
Dispatched == {main.gt[j] : j \in 1..Len(main.gt)}
Completed == {d \in Devices : task[d].pc = "t_done"}

\* C13 (as stated): the tracker is incremented once per dispatched task, the
\* increments of N tasks return each of 1..N once, and the processed count
\* equals the total when the batch returns.
C13_ProcessedEqualsTotal ==
    (Returned /\ batch.op \in TrackedOps)
        => /\ {task[d].incr : d \in Dispatched} = 1..Cardinality(Dispatched)
           /\ state.processed_devices = state.total_devices

\* C13 (amended): in manage_device_attendances and update_devices_time the
\* tracker is incremented exactly once per dispatched task, whether the task
\* returns or raises; the increments of N tasks return each of 1..N once;
\* when the batch returns the processed count is the number of dispatched
\* tasks, which is the total less the devices whose spawn raised.
C13_ProcessedEqualsDispatched ==
    batch.op \in TrackedOps
        => /\ state.processed_devices = Cardinality(Completed)
           /\ {task[d].incr : d \in Completed} = 1..Cardinality(Completed)
           /\ \A d \in Devices \ Completed : task[d].incr = 0
           /\ Returned => /\ Completed = Dispatched
                          /\ state.processed_devices = Len(main.gt)
                          /\ state.total_devices = Len(main.active_devices)
                          /\ Len(main.gt) <= state.total_devices

C13_Witness ==
    /\ Returned /\ batch.op = "time" /\ Len(main.gt) = 2
    /\ task["A"].tret = "returned" /\ task["A"].incr = 2
    /\ task["B"].tret # "returned" /\ task["B"].incr = 1
    /\ state.processed_devices = 2

\* C14: for a total N > 0 the percentage is floor(processed * 100 / N), it
\* does not fall from one increment to the next, and it is 100 after the
\* Nth increment; for a total of 0 it is 0 whatever the processed count.
C14_ProgressIsFloor ==
    LET N == state.total_devices
        processed == state.processed_devices
        before == [state EXCEPT !.processed_devices = processed - 1]
    IN  IF N > 0
        THEN /\ calculate_progress(state) = (processed * 100) \div N
             /\ processed > 0 => calculate_progress(before) <= calculate_progress(state)
             /\ processed = N => calculate_progress(state) = 100
        ELSE calculate_progress(state) = 0

StatusLabels == {"fingerprint", "face", "card"}

\* C16: formatting maps 1 to the fingerprint label, 15 to the face label and
\* 0, 2, 4 to the card label; a record with any other code makes formatting
\* fail, and no formatted record carries a default or unmapped status.
C16_UnmappedStatusFails ==
    /\ main.pc = "f_done" =>
          /\ (\E i \in 1..Len(main.attendances) : main.attendances[i].status \notin MappedCodes)
                => main.raised # "none"
          /\ \A i \in 1..Len(main.formatted_attendances) :
                LET code == main.attendances[i].status
                    status == main.formatted_attendances[i].status
                IN  /\ status \in StatusLabels
                    /\ code = 1 => status = "fingerprint"
                    /\ code = 15 => status = "face"
                    /\ code \in {0, 2, 4} => status = "card"
    /\ main.pc = "m_done" =>
          \A i \in 1..Len(main.methods) :
             main.attendances[i].status \notin MappedCodes
                => main.methods[i].formatted.raised # "none"

\* The punch lists format_attendances can format: every timestamp is a
\* datetime.
Formatted == main.pc = "f_done" /\ ~main.objects

\* C17: a punch dated more than three months before the time read is
\* flagged, a punch dated strictly after the time read is flagged, and a
\* punch dated exactly at the time read is not flagged as future; the
\* function tests and the Attendance methods agree.
C17_AnomalousPunchesFlagged ==
    /\ Formatted =>
          Len(main.warnings) = Cardinality({i \in 1..Len(main.attendances) :
              IsFlagged(main.attendances[i].timestamp.at, main.readings[i])})
    /\ Formatted =>
          \A i \in 1..Len(main.attendances) :
             LET timestamp == main.attendances[i].timestamp.at
                 now == main.readings[i]
                 flagged == IsFlagged(timestamp, now)
             IN  /\ DateTimeLess(timestamp, MinusThreeMonths(now[1])) => flagged
                 /\ DateTimeLess(now[2], timestamp) => flagged
                 /\ timestamp = now[2] => ~is_in_the_future(timestamp, now[2])
                 /\ flagged <=> (DateTimeLeq(timestamp, MinusThreeMonths(now[1]))
                                    \/ DateTimeLess(now[2], timestamp))
    /\ main.pc = "m_done" =>
          \A i \in 1..Len(main.methods) :
             LET timestamp == main.attendances[i].timestamp_str.at
                 now == main.readings[i]
             IN  /\ main.methods[i].is_three_months_old
                       <=> is_three_months_old(timestamp, now[1])
                 /\ main.methods[i].is_in_the_future
                       <=> is_in_the_future(timestamp, now[2])
                 /\ timestamp = now[2] => ~main.methods[i].is_in_the_future

C17_Witness ==
    /\ Formatted /\ Len(main.attendances) = 2
    /\ main.attendances[1].timestamp.at = ClockReadings[2]
    /\ main.readings[1] = <<ClockReadings[2], ClockReadings[2]>>
    /\ main.attendances[2].timestamp.at = DateTime(2024, 2, 28, 23, 0, 0)
    /\ Len(main.warnings) = 1
    /\ main.warnings[1].extra_info = main.formatted_attendances[2]

\* C18: for punches whose timestamps are datetimes, format_attendances
\* returns one formatted record per punch, in input order, flagged or not:
\* a three-month-old or future-dated punch is reported as a warning and is
\* in the list returned.
C18_OneRecordPerPunch ==
    Formatted =>
       /\ main.raised = "none"
       /\ Len(main.formatted_attendances) = Len(main.attendances)
       /\ \A i \in 1..Len(main.attendances) :
             /\ main.formatted_attendances[i] = FormatOne(main.attendances[i], main.id)
             /\ main.formatted_attendances[i].timestamp.text
                   = strftime(main.attendances[i].timestamp.at)
       /\ \A k \in 1..Len(main.warnings) :
             /\ main.warnings[k].level = "warning"
             /\ \E i \in 1..Len(main.attendances) :
                   /\ main.warnings[k].extra_info = main.formatted_attendances[i]
                   /\ IsFlagged(main.attendances[i].timestamp.at, main.readings[i])

C18_Witness ==
    /\ Formatted /\ Len(main.attendances) = 2
    /\ main.attendances[1].timestamp.at = DateTime(2024, 5, 31, 11, 0, 1)
    /\ main.attendances[2].timestamp.at = DateTime(2024, 5, 30, 9, 0, 30)
    /\ Len(main.warnings) = 1
    /\ main.formatted_attendances[1].timestamp.text
          = <<"3", "1", "/", "0", "5", "/", "2", "0", "2", "4", " ", "1", "1", ":", "0", "0">>
    /\ main.formatted_attendances[2].timestamp.text
          = <<"3", "0", "/", "0", "5", "/", "2", "0", "2", "4", " ", "0", "9", ":", "0", "0">>

\* The time synchronization of d ended in OutdatedTimeError: its task of
\* update_devices_time raised BatteryFailingError, or its attendance task
\* went on to update_battery_status.
OutdatedSync(d) ==
    \/ batch.op = "time" /\ task[d].pc = "t_done" /\ task[d].tret = "BatteryFailingError"
    \/ batch.op = "attendances" /\ "battery" \in task[d].wrote

\* C19: when the time synchronization of D ends in the outdated-time
\* condition, the registry record of D is updated to read as battery
\* failing, and the battery flag of no other device changes.
C19_OutdatedTimeFlagsBattery ==
    (Returned /\ main.raised = "none" /\ Len(main.device_info) = Len(registry))
        => \A i \in 1..Len(registry) :
              IF OutdatedSync(registry[i].ip)
              THEN Device_battery_failing(registry[i])
              ELSE registry[i].battery_failing = main.device_info[i].battery_failing

\* update_time is over, and it reached __validate_time or not.
UpdateTimeOver == cm.op = "update_time" /\ cm.pc = "op_done"
Validated == UpdateTimeOver /\ cm.today # 0

\* The comparison of the claim, between a device time and a local time.
Differs(zktime, local) ==
    \/ zktime.hour # local.hour
    \/ Abs(zktime.minute - local.minute) >= 5
    \/ zktime.day # local.day
    \/ zktime.month # local.month
    \/ zktime.year # local.year

\* C20 (as stated): update_time raises the outdated-time condition exactly
\* when the device time read before the write differs from the local time
\* written to the device in the hour, by 5 or more in the minute, or in day,
\* month or year; otherwise it returns normally.
C20_OutdatedAgainstTimeWritten ==
    Validated =>
       /\ (cm.ret = "OutdatedTimeError") <=> Differs(cm.zktime, LocalClock[cm.newtime])
       /\ ~Differs(cm.zktime, LocalClock[cm.newtime]) => cm.ret = "ok"

\* C20 (amended): when both transport calls of update_time have succeeded,
\* it raises the outdated-time condition exactly when the device time read
\* before the write differs, in the same fields, from the local time read
\* again at validation -- a reading not earlier than the time written -- and
\* returns normally otherwise; when a transport call fails for good it
\* raises another error and makes no validation.
C20_OutdatedAgainstTimeAtValidation ==
    UpdateTimeOver =>
       IF cm.today = 0
       THEN cm.ret \in {"NetworkError", "AttributeError", "BaseError0000"}
       ELSE /\ 1 <= cm.newtime /\ cm.newtime <= cm.today
            /\ (cm.ret = "OutdatedTimeError") <=> Differs(cm.zktime, LocalClock[cm.today])
            /\ ~Differs(cm.zktime, LocalClock[cm.today]) => cm.ret = "ok"

C20_Witness ==
    /\ Validated /\ cm.ret = "ok"
    /\ cm.zktime = [LocalNow EXCEPT !.minute = 35]
    /\ cm.newtime = 1 /\ cm.today = 2

\* The spawning loop has not come to d yet.
WaitingForSlot(d) ==
    /\ main.pc = "spawn"
    /\ \E j \in main.i..Len(main.active_devices) : main.active_devices[j].ip = d

\* The spawning loop is past d and its spawn raised.
SpawnRaised(d) ==
    /\ d \in Ips(main.active_devices)
    /\ ~WaitingForSlot(d)
    /\ d \notin Dispatched

C22_CountersUnderLock ==
    \A method \in DOMAIN SharedStateMethods :
       main.pc = method /\ SharedStateMethods[method].reads \cup SharedStateMethods[method].writes # {}
          => SharedStateMethods[method].with_lock

\* C23: when the spawn of a device raised, every other selected device whose
\* own spawn did not raise has still been dispatched and has been run to
\* its end when the batch returns, and every entry of the result map is
\* the outcome of the task of the device it is recorded under.
C23_FailedSpawnIsolated ==
    Returned =>
       /\ \A d \in Ips(main.active_devices) :
             SpawnRaised(d) =>
                \A e \in Ips(main.active_devices) \ {d} :
                   ~SpawnRaised(e) => (e \in Dispatched /\ e \in Completed)
       /\ \A ip \in DOMAIN main.results :
             /\ ip \in Dispatched
             /\ main.results[ip] = OutcomeEntry(ip)

\* What a transport call fails with before it is classified.
RawTransportErrors == {"Timeout", "Exception", "ConnectionRefusedError"}

\* An operation that went through the retry wrapper is over.
WrapperOver ==
    /\ cm.op \in {"get_attendances", "update_time"} /\ cm.pc = "op_done"
    /\ cm.call \notin {"none", "connect"}

\* C24: a transport call that runs past the deadline or raises, whatever
\* the exception says, leaves execute as ConnectionRefusedError; an
\* operation made through the wrapper never ends with a raw transport
\* exception, and a wrapper run that does not return ends with NetworkError
\* (once, after the last attempt failed).
C24_TransportFailuresNormalised ==
    /\ \A o \in TransportFailures :
          execute_network_operation(o).type = "ConnectionRefusedError"
    /\ cm.op \in {"get_attendances", "update_time"}
          => (cm.ret \notin RawTransportErrors /\ cm.cause \notin RawTransportErrors)
    /\ WrapperOver
          => /\ cm.cause \in {"none", "NetworkError", "AttendanceMismatchError",
                              "OutdatedTimeError", "AttributeError"}
             /\ cm.ret # "ok" => cm.cause # "none"
             /\ cm.cause = "NetworkError"
                   => (cm.nerr = 1 /\ cm.fails /\ cm.tries = max_attempts)

C24_Witness ==
    /\ WrapperOver /\ cm.op = "update_time" /\ cm.call = "set_time"
    /\ cm.ret = "NetworkError" /\ cm.cause = "NetworkError"
    /\ max_attempts = 2 /\ cm.tries = 2 /\ cm.sleeps = 1

\* The unreachable-code sentinel of a retry loop has been raised (the
\* BaseError(0000) get_attendances wraps an AttributeError in is another).
SentinelRaised == cm.ret = "BaseError0000" /\ cm.cause \in {"none", "BaseError0000"}

\* C25: with max_attempts >= 1 neither retry loop falls out to its
\* sentinel: a backoff sleep is always followed by another attempt,
\* connect_with_retry ends by returning or by NetworkError, and a wrapper
\* run that does not return ends by NetworkError.
C25_SentinelNeverRaised ==
    /\ max_attempts >= 1
    /\ ~SentinelRaised
    /\ cm.pc \in {"cwr_sleep", "w_sleep"} => HasNextAttempt(cm.attempt, max_attempts)
    /\ (cm.op = "connect_with_retry" /\ cm.pc = "op_done") => cm.ret \in {"ok", "NetworkError"}
    /\ (WrapperOver /\ cm.ret = "BaseError0000") => cm.cause = "AttributeError"

C25_Witness ==
    /\ max_attempts = 4
    /\ cm.op = "update_time" /\ cm.call = "get_time" /\ cm.pc = "op_done"
    /\ cm.ret = "NetworkError" /\ cm.tries = 4 /\ cm.sleeps = 3 /\ cm.attempt = 3

\* The network operations of a task follow one another in a fixed order.
StageRank ==
    [none |-> 0, get |-> 1, count |-> 1, time |-> 1, body |-> 1, name |-> 2, save |-> 3,
     inner_time |-> 4, battery |-> 5]

\* C26: every retry loop of a device task makes at most max_attempts
\* attempts (each of them at most a reconnection and the call),
\* get_attendances at most max_attempts rounds, and the network operations
\* of a task follow one another without going back; every task that was
\* spawned ends, and the batch returns.
C26_TasksAndBatchTerminate ==
    /\ [](\A d \in Devices :
            /\ task[d].tries <= max_attempts
            /\ task[d].sleeps < max_attempts
            /\ task[d].rounds <= max_attempts)
    /\ [][\A d \in Devices :
            (task'[d].stage # task[d].stage /\ task'[d].pc # "t_done")
                => StageRank[task'[d].stage] > StageRank[task[d].stage]]_vars
    /\ \A d \in Devices : (task[d].pc = "t_start") ~> Finished(d)
    /\ <>Returned

C26_Witness ==
    /\ Returned /\ batch.op = "attendances"
    /\ task["B"].pc = "t_done" /\ task["B"].rounds = FleetAttempts /\ task["B"].tret = "returned"
    /\ task["C"].pc = "t_done" /\ task["C"].fails /\ task["C"].tret # "returned"

\* The result map as the selection, the spawned tasks and what each task
\* came to determine it: the k-th selected device with the k-th task.
MapOfOutcomes ==
    LET n == Min(Len(main.active_devices), Len(main.gt))
        LastOf(ip) == CHOOSE j \in 1..n :
                         /\ main.active_devices[j].ip = ip
                         /\ \A k \in (j + 1)..n : main.active_devices[k].ip # ip
    IN  [ip \in {main.active_devices[j].ip : j \in 1..n} |-> OutcomeEntry(main.gt[LastOf(ip)])]

\* C27: the result map a fleet operation returns is determined by what each
\* device task came to (and by which spawns were made): it is the same
\* whatever the order in which the tasks ran and completed.
C27_ResultMapIndependentOfOrder ==
    (Returned /\ batch.op \in {"attendances", "count", "time"})
        => main.results = MapOfOutcomes

C27_Witness ==
    /\ Returned /\ batch.op = "time" /\ main.raised = "none"
    /\ main.gt = <<"A", "B">>
    /\ task["A"].incr = 2 /\ task["B"].incr = 1
    /\ DOMAIN main.results = {"A", "B"}
    /\ main.results["A"] # main.results["B"]

\* update_device_name of the task of d has returned or raised.
NameUpdateOver(d) == task[d].op = "update_device_name" /\ task[d].pc = "op_done"

\* C28: update_device_name asks for the serial number whenever the name
\* could not be retrieved or is blank once sanitized (it never ends on the
\* get_device_name call without a name), the overridden serial number gives
\* the hardcoded name, and when neither call gives a non-blank value it
\* raises BaseError(3000) with the registry left as it was.
C28_NameFallsBackToSerial ==
    \A d \in Devices :
       NameUpdateOver(d) =>
          /\ task[d].ret \in {"ok", "BaseError3000"}
          /\ (task[d].ret = "ok" /\ task[d].call = "get_serialnumber")
                => task[d].name = RemoveSpaces(OverrideName)
          /\ task[d].call = "get_device_name"
                => (task[d].ret = "ok" /\ ~IsBlank(task[d].name))
          /\ task[d].ret = "BaseError3000"
                => (task[d].call = "get_serialnumber" /\ task[d].wname = <<>>)

\* No task was spawned.
NothingDispatched == Dispatched = {} /\ \A d \in Devices : task[d].pc = "idle"

\* C29: when the device list is empty the operation returns an empty result
\* map with no task spawned, and so it does when the list has devices of
\* which none is selected.
C29_EmptyRegistryEmptyResult ==
    (Returned /\ batch.op \in {"attendances", "count", "time"})
        => /\ main.device_info = <<>>
                => (~main.no_value /\ main.results = <<>> /\ NothingDispatched)
           /\ (main.device_info # <<>> /\ main.active_devices = <<>>)
                => (~main.no_value /\ main.results = <<>> /\ NothingDispatched)

\* The lines of the registry the comprehension has been through.
LinesDone == 1..(IF main.pc = "raised" THEN main.i ELSE main.i - 1)
EightFields(k) == Len(registry[k]) = 8
BadLine(k) ==
    /\ EightFields(k)
    /\ (registry[k][6] \notin {"TCP", "UDP", "RS232", "RS485"} \/ registry[k][5] = "x")

\* C30: every Device made from the registry has one of the four modes; a
\* line of eight fields with another mode makes the construction fail with
\* ValueError and gives no Device, and a line that has not exactly eight
\* fields gives no Device: the Devices are those of the lines of eight
\* fields, in their order.
C30_DevicesHaveValidCommunication ==
    /\ \A j \in 1..Len(main.devices) :
          main.devices[j].communication \in {"TCP", "UDP", "RS232", "RS485"}
    /\ \A parts \in RegistryLines :
          /\ Len(parts) # 8 => organize_devices_info(parts).type = "None"
          /\ (Len(parts) = 8 /\ parts[6] \notin {"TCP", "UDP", "RS232", "RS485"})
                => organize_devices_info(parts).type = "ValueError"
    /\ main.pc # "raised"
          => /\ \A k \in LinesDone : ~BadLine(k)
             /\ Len(main.devices) = Cardinality({k \in LinesDone : EightFields(k)})
    /\ main.pc = "raised" => (BadLine(main.i) /\ main.devices = <<>>)

C30_Witness ==
    /\ main.pc = "returned"
    /\ Len(registry) = 2 /\ Len(registry[1]) = 7 /\ registry[2] = RegistryLine("1", "RS485")
    /\ Len(main.devices) = 1 /\ main.devices[1].communication = "RS485"

\* A run of the wrapper is under way or over.
InWrapper == cm.call \notin {"none", "connect"} /\ cm.pc \in {"w_try", "w_exec", "w_sleep", "op_done"}

\* C31: in a run of the wrapper the operation is executed only on a
\* connected session; an attempt that finds the session not connected
\* reconnects first, and when the reconnection fails the attempt is over
\* without an execution; executions and failed reconnections together never
\* exceed max_attempts.
C31_ExecutedOnlyWhileConnected ==
    /\ [](InWrapper =>
            /\ cm.execs + cm.refails <= cm.tries
            /\ cm.tries <= max_attempts
            /\ cm.pc = "w_exec" => (cm.conn = "up" /\ cm.execs + cm.refails = cm.tries - 1)
            /\ cm.pc \in {"w_sleep", "op_done"} => cm.execs + cm.refails = cm.tries)
    /\ [][/\ cm'.execs = cm.execs + 1 => cm.conn = "up"
          /\ cm'.refails = cm.refails + 1
                => (cm.conn # "up" /\ cm'.execs = cm.execs /\ cm'.conn = "none"
                    /\ cm'.tries = cm.tries + 1)]_vars

C31_Witness ==
    /\ cm.op = "update_time" /\ cm.call = "get_time" /\ cm.pc = "op_done"
    /\ max_attempts = 3 /\ cm.tries = 3 /\ cm.execs = 2 /\ cm.refails = 1
    /\ cm.ret = "NetworkError"

\* C32: in get_attendances a NetworkError of the wrapper ends the call at
\* once as ObtainAttendancesError (no further round is started: a round only
\* follows the backoff sleep after a mismatch), and one call makes at most
\* max_attempts * max_attempts get_attendance transport calls, at most
\* max_attempts of them in each of at most max_attempts rounds.
C32_NetworkErrorNotRetriedByOuterLoop ==
    /\ [](cm.op = "get_attendances" =>
            /\ cm.rounds <= max_attempts
            /\ cm.reads_made <= cm.rounds * max_attempts
            /\ cm.reads_made <= max_attempts * max_attempts
            /\ (cm.ret = "ObtainAttendancesError" /\ cm.cause = "NetworkError")
                  => (cm.pc = "op_done" /\ cm.nerr = 1 /\ cm.tries = max_attempts))
    /\ [][(cm.op = "get_attendances" /\ cm'.nerr = cm.nerr + 1)
             => /\ cm'.pc = "op_done"
                /\ cm'.ret = "ObtainAttendancesError"
                /\ cm'.cause = "NetworkError"
                /\ cm'.rounds = cm.rounds
                /\ cm'.reads_made <= cm.reads_made + 1]_vars
    /\ [][(cm.pc \notin {"idle", "op_done"} /\ cm'.rounds = cm.rounds + 1)
             => (cm.pc = "ga_sleep" /\ cm.mism = cm.rounds /\ cm.nerr = 0)]_vars

\* Two rounds of three reads each (two refused, then a mismatch; then three
\* refused): the NetworkError of the second round ends the call although a
\* third round was left.
C32_Witness ==
    /\ cm.op = "get_attendances" /\ cm.pc = "op_done"
    /\ cm.ret = "ObtainAttendancesError" /\ cm.cause = "NetworkError"
    /\ max_attempts = 3 /\ cm.rounds = 2 /\ cm.mism = 1 /\ cm.reads_made = 6

\* update_time is running one of its two wrapped calls.
InUpdateTime == cm.op = "update_time" /\ cm.pc \in {"w_try", "w_exec", "w_sleep"}

\* C33: update_time runs get_time, set_time and the validation in this
\* order: set_time starts only in the step in which get_time returned the
\* device time, so never after a terminal failure of get_time; the device
\* time kept for the validation is the one read before the write and does
\* not change while set_time runs; and OutdatedTimeError is raised only in
\* the step in which set_time was executed on a connected session and
\* returned.
C33_GetTimeSetTimeValidate ==
    /\ [](InUpdateTime =>
            /\ cm.call \in {"get_time", "set_time"}
            /\ cm.call = "get_time" => (cm.zktime = NoTime /\ cm.newtime = 0 /\ cm.today = 0)
            /\ cm.call = "set_time" => (cm.zktime \in DeviceTimes /\ cm.newtime # 0 /\ cm.today = 0))
    /\ [](UpdateTimeOver =>
            /\ (cm.ret = "NetworkError" /\ cm.call = "get_time")
                  => (cm.zktime = NoTime /\ cm.newtime = 0 /\ cm.today = 0)
            /\ cm.ret \in {"OutdatedTimeError", "ok"}
                  => /\ cm.call = "set_time" /\ cm.zktime \in DeviceTimes
                     /\ cm.newtime # 0 /\ cm.today >= cm.newtime
                     /\ (cm.ret = "OutdatedTimeError")
                           <=> OutdatedTime(cm.zktime, LocalClock[cm.today]))
    /\ [][(InUpdateTime /\ cm.call = "get_time" /\ cm'.call = "set_time")
             => /\ cm'.execs = 0 /\ cm'.pc = "w_try" /\ cm'.ret = "none"
                /\ cm.nerr = 0 /\ cm.execs + cm.refails < max_attempts
                /\ (cm.pc = "w_try" => cm.conn = "up")]_vars
    /\ [][(InUpdateTime /\ cm.call = "set_time")
             => /\ cm'.zktime = cm.zktime /\ cm'.newtime = cm.newtime
                /\ cm'.call = "set_time"]_vars
    /\ [][(InUpdateTime /\ cm'.ret \in {"OutdatedTimeError", "ok"})
             => /\ cm.call = "set_time" /\ cm.pc \in {"w_try", "w_exec"}
                /\ cm.conn = "up" /\ cm'.execs = cm.execs + 1
                /\ cm'.nerr = 0]_vars

\* get_time read the day before, the first set_time call was refused, the
\* second wrote 10:30 of today, and the validation (local clock 10:31) still
\* judged the reading made before the write.
C33_Witness ==
    /\ UpdateTimeOver /\ cm.ret = "OutdatedTimeError" /\ cm.call = "set_time"
    /\ cm.zktime = [LocalNow EXCEPT !.day = 14]
    /\ cm.newtime = 1 /\ cm.today = 2 /\ cm.execs = 2 /\ cm.fails

\* The attendance task of d is at or past update_device_time_single(info).
InTimeSync(d) == batch.op = "attendances" /\ task[d].stage \in {"inner_time", "battery"}

\* C34: in the attendance task of a device the time synchronization starts
\* only from the step in which the files were saved, with the attendances
\* retrieved and formatted; and once it has started, however it ends
\* (network error or failing battery), the task returns the number of
\* attendances it had before.
C34_TimeSyncKeepsPunchCount ==
    [][\A d \in Devices :
          /\ (InTimeSync(d)' /\ ~InTimeSync(d))
                => (task[d].stage = "save" /\ task[d].accepted
                    /\ task'[d].attendances = task[d].attendances)
          /\ (InTimeSync(d) /\ task'[d].pc = "t_done")
                => (task'[d].tret = "returned"
                    /\ task'[d].tval = Len(task[d].attendances))]_vars

\* The step in which update_device_name of d goes through the registry file.
NameRewriteStep(d) == task[d].pc = "udn_write" /\ task'[d].pc # "udn_write"

\* C35: update_device_name of device d changes nothing in the registry but
\* the model name of the lines whose IP is d, which becomes the new name:
\* the number of lines, the other lines and the other fields stay as they
\* were; and when a line of d already carries the new name the file is not
\* written at all.
C35_NameUpdateFrame ==
    [][\A d \in Devices :
          NameRewriteStep(d) =>
            /\ Len(registry') = Len(registry)
            /\ \A i \in 1..Len(registry) :
                  /\ registry[i].ip # d => registry'[i] = registry[i]
                  /\ registry[i].ip = d =>
                        /\ registry'[i] = [registry[i] EXCEPT !.model_name = registry'[i].model_name]
                        /\ registry'[i].model_name \in {registry[i].model_name, task[d].name}
            /\ (\E i \in 1..Len(registry) :
                    registry[i].ip = d /\ registry[i].model_name = task[d].name)
                  => (registry' = registry /\ task'[d].wrote = task[d].wrote
                      /\ task'[d].rmw = task[d].rmw)
            /\ registry' # registry => "name" \in task'[d].wrote]_vars

\* A was renamed MultiBio700/ID from its serial number; B answered the name
\* it is registered with and finished without a write; its line and the
\* other fields of A's line are as they were read.
C35_Witness ==
    /\ batch.op = "attendances" /\ Len(registry) >= 2
    /\ "name" \in task["A"].wrote /\ task["A"].wname = RemoveSpaces(OverrideName)
    /\ task["B"].pc = "t_done" /\ task["B"].tret = "returned" /\ task["B"].wrote = {}
    /\ \E i \in 1..Len(registry) :
          /\ registry[i] = [main.device_info[i] EXCEPT !.model_name = RemoveSpaces(OverrideName)]
          /\ registry[i].ip = "A"
    /\ \E i \in 1..Len(registry) :
          registry[i].ip = "B" /\ registry[i] = main.device_info[i]

\* A call of manage_threads_to_devices is running on the tracker.
BatchRunning == main.pc = "spawn"
\* The bounds of the claim on the counters and on the percentage.
ProcessedWithinTotal ==
    /\ 0 <= state.processed_devices
    /\ state.processed_devices <= state.total_devices
    /\ calculate_progress(state) \in 0..100
\* The total is set to the number of selected devices in the step that
\* begins the call, with nothing dispatched yet, and stays during the call.
TotalSetBeforeDispatch ==
    [][/\ (~BatchRunning /\ BatchRunning')
            => /\ state'.total_devices = Cardinality(main'.todo)
               /\ main'.pending = {}
               /\ state'.processed_devices = state.processed_devices
       /\ BatchRunning => state'.total_devices = state.total_devices]_vars

\* C36 (as stated): the total is set to the number of selected devices
\* before any task is dispatched and does not change during the batch, and
\* in every state of a batch, also of a later batch on the same tracker,
\* 0 <= processed <= total and the percentage lies in 0..100.
C36_ProcessedWithinTotal ==
    /\ TotalSetBeforeDispatch
    /\ [](BatchRunning => ProcessedWithinTotal)

\* C36 (amended): the total is set before any task is dispatched and stays
\* during the batch; the processed count is what the batch found plus one
\* for each finished task at most; a new tracker and a tracker after
\* reset() have a processed count of 0; so 0 <= processed <= total and a
\* percentage in 0..100 hold in the batches that found the tracker new or
\* just reset.
C36_ProcessedWithinTotalAfterReset ==
    /\ TotalSetBeforeDispatch
    /\ [](BatchRunning =>
            /\ main.base <= state.processed_devices
            /\ state.processed_devices - main.base
                  <= state.total_devices - Cardinality(main.todo) - Cardinality(main.pending))
    /\ [](main.last \in {"__init__", "reset"} => state.processed_devices = 0)
    /\ []((BatchRunning /\ main.found \in {"__init__", "reset"}) => ProcessedWithinTotal)

\* A later batch on a tracker that was reset after the batch before it: two
\* devices selected, both tasks have reported.
C36_Witness ==
    /\ BatchRunning /\ main.reused /\ main.found = "reset"
    /\ main.function = "increments"
    /\ state.total_devices = 2 /\ state.processed_devices = 2
    /\ calculate_progress(state) = 100

\* The calls of the progress callback made by the tasks.
Emitted == UNION {{task[d].emits[i] : i \in 1..Len(task[d].emits)} : d \in Devices}

\* C37: in every call of the progress callback, percent_progress is the
\* floor of processed_devices * 100 / total_devices, for the
\* processed_devices and total_devices of the same call.
C37_PercentIsFloorOfProcessed ==
    \A e \in Emitted :
       e.total_devices > 0
          => e.percent_progress = (e.processed_devices * 100) \div e.total_devices

====
